---- MODULE Spec2Model ----
(***************************************************************************)
(* State-machine model of the ToMantle backend: the Express application    *)
(* (src/src/index.js), the two explorer routers                            *)
(* (src/src/explorers/mantle/index.js, src/unnamed/part_001) and the Lit   *)
(* orchestration functions signAndExecuteContractTx (src/unnamed/part_002) *)
(* and signAndCombineAndSendTx (src/src/explorers/mantle/index.js).        *)
(*                                                                         *)
(* One action is one synchronous segment of a handler: the code that runs  *)
(* between two awaits.  The action that resumes after an awaited external  *)
(* call draws that call's outcome (value or failure) with \E.              *)
(***************************************************************************)
EXTENDS Integers, Sequences, FiniteSets, TLC

\* ------------------------------------------------------------- bounds
MaxReq == 2          \* request slots of the server (Spec fills one at a time, OverlapSpec all)
MaxNonce == 2        \* cap of a chain account's transaction count
MaxMint == 2         \* cap of the number of PKPs minted on the Lit chain

\* -------------------------------------------------- program constants
AddressHexLen == 40
TxHashHexLen == 64
MaxAddresses == 20
MinBalanceWei == 25000
FundingGasLimit == 21000
GasMulNum == 12
GasMulDen == 10
CombineTxValue == 1

Reqs == 1..MaxReq

\* ---------------------------------------------------------- JS values
\* A JavaScript value: its type tag t, its text s (a tuple of text chunks;
\* the strings a regular expression reads are spelled one character per
\* chunk) and, for an array, its elements a.
JSUndefined == [t |-> "undefined", s |-> <<>>, a |-> <<>>]
JSNull == [t |-> "null", s |-> <<>>, a |-> <<>>]
Str(s) == [t |-> "string", s |-> s, a |-> <<>>]
Num(s) == [t |-> "number", s |-> s, a |-> <<>>]
Bool(b) == [t |-> "boolean", s |-> IF b THEN <<"true">> ELSE <<"false">>, a |-> <<>>]
Arr(a) == [t |-> "array", s |-> <<>>, a |-> a]
Obj(s) == [t |-> "object", s |-> s, a |-> <<>>]

\* !v
Truthy(v) ==
  CASE v.t = "undefined" -> FALSE
    [] v.t = "null" -> FALSE
    [] v.t = "string" -> v.s # <<>>
    [] v.t = "number" -> v.s # <<"0">>
    [] v.t = "boolean" -> v.s = <<"true">>
    [] OTHER -> TRUE

\* a || b
Or(a, b) == IF Truthy(a) THEN a ELSE b

\* Array.isArray(v)
IsArray(v) == v.t = "array"

RECURSIVE JoinText(_, _)
\* Array.prototype.join: the elements' texts, sep between them
JoinText(a, sep) ==
  IF a = <<>> THEN <<>>
  ELSE IF Len(a) = 1 THEN Head(a).s
  ELSE Head(a).s \o sep \o JoinText(Tail(a), sep)

\* String(v), the coercion RegExp.prototype.test applies to its argument
ToText(v) ==
  CASE v.t = "undefined" -> <<"u", "n", "d", "e", "f", "i", "n", "e", "d">>
    [] v.t = "null" -> <<"n", "u", "l", "l">>
    [] v.t = "array" -> JoinText(v.a, <<",">>)
    [] v.t = "object" -> <<"[object Object]">>
    [] OTHER -> v.s

\* {...p, ...q}
Merge(p, q) ==
  [k \in DOMAIN p \cup DOMAIN q |-> IF k \in DOMAIN q THEN q[k] ELSE p[k]]

\* ------------------------------------------------- regular expressions
HexDigits ==
  {"0", "1", "2", "3", "4", "5", "6", "7", "8", "9",
   "a", "b", "c", "d", "e", "f", "A", "B", "C", "D", "E", "F"}

\* /^0x[a-fA-F0-9]{n}$/.test(v)
Matches0xHex(v, n) ==
  LET text == ToText(v)
  IN /\ Len(text) = 2 + n
     /\ text[1] = "0"
     /\ text[2] = "x"
     /\ \A i \in 3..(2 + n) : text[i] \in HexDigits

AddressRegexTest(v) == Matches0xHex(v, AddressHexLen)
TxHashRegexTest(v) == Matches0xHex(v, TxHashHexLen)

\* ------------------------------------------------------- sample inputs
Rep(c, n) == [i \in 1..n |-> c]
Hex(c, n) == <<"0", "x">> \o Rep(c, n)

GoodAddress == Str(Hex("a", AddressHexLen))
MixedCaseAddress == Str(<<"0", "x">> \o Rep("F", AddressHexLen - 1) \o <<"9">>)
ShortAddress == Str(Hex("a", AddressHexLen - 1))
LongAddress == Str(Hex("a", AddressHexLen + 1))
NonHexAddress == Str(<<"0", "x">> \o Rep("a", AddressHexLen - 1) \o <<"g">>)
UpperPrefixAddress == Str(<<"0", "X">> \o Rep("a", AddressHexLen))

GoodTxHash == Str(Hex("b", TxHashHexLen))
ShortTxHash == Str(Hex("b", TxHashHexLen - 1))
NonHexTxHash == Str(<<"0", "x">> \o Rep("b", TxHashHexLen - 1) \o <<"z">>)

AddressSamples ==
  {GoodAddress, MixedCaseAddress, ShortAddress, LongAddress, NonHexAddress,
   UpperPrefixAddress}
TxHashSamples == {GoodTxHash, ShortTxHash, NonHexTxHash, GoodAddress}
ContractAddressSamples == {MixedCaseAddress, ShortAddress}
BlockSamples == {Str(<<"1", "2">>), Str(<<"x">>)}

NoParams ==
  [address |-> JSUndefined, txhash |-> JSUndefined, contractaddress |-> JSUndefined,
   blockno |-> JSUndefined, timestamp |-> JSUndefined]
NoQuery ==
  [startblock |-> JSUndefined, endblock |-> JSUndefined, page |-> JSUndefined,
   offset |-> JSUndefined, sort |-> JSUndefined, contractaddress |-> JSUndefined,
   closest |-> JSUndefined, apikey |-> JSUndefined]
FullQuery ==
  [startblock |-> Str(<<"5">>), endblock |-> Str(<<"9">>), page |-> Str(<<"2">>),
   offset |-> Str(<<"5", "0">>), sort |-> Str(<<"a", "s", "c">>),
   contractaddress |-> ShortAddress, closest |-> Str(<<"after">>),
   apikey |-> Str(<<"client-key">>)]
EmptyQuery ==
  [startblock |-> Str(<<>>), endblock |-> Str(<<>>), page |-> Str(<<>>),
   offset |-> Str(<<>>), sort |-> Str(<<>>), contractaddress |-> Str(<<>>),
   closest |-> Str(<<>>), apikey |-> Str(<<>>)]
NoBody ==
  [addresses |-> JSUndefined, contractAddress |-> JSUndefined,
   contractABI |-> JSUndefined, functionName |-> JSUndefined,
   functionParams |-> JSUndefined, value |-> JSUndefined]

\* ------------------------------------------------------------- routes
ExplorerRouters == {"baseSepolia", "mantle"}

\* src/unnamed/part_001: the routes of the Base Sepolia router
BaseSepoliaRoutes ==
  {"GET /balance/:address", "POST /balances", "GET /transactions/:address",
   "GET /internal-transactions/:address",
   "GET /internal-transactions-by-txhash/:txhash",
   "GET /token-transfers/:address", "GET /nft-transfers/:address",
   "GET /contract/abi/:address", "GET /contract/source/:address",
   "GET /transaction/status/:txhash", "GET /transaction/receipt/:txhash",
   "GET /block/reward/:blockno", "GET /block/countdown/:blockno",
   "GET /block/bytimestamp/:timestamp", "GET /token/supply/:contractaddress",
   "GET /token/balance/:contractaddress/:address"}


\* C3 mutant: the Mantle router is mounted with the routes of the Base
\* Sepolia router
MantleRoutesAsBaseSepolia == BaseSepoliaRoutes

\* src/src/explorers/mantle/index.js: the routes of the Mantle router
MantleRoutes ==
  {"GET /balance/:address", "POST /balances", "GET /transactions/:address",
   "GET /internal-transactions/:address", "GET /internal-tx/:txhash",
   "GET /token-transfers/:address", "GET /nft-transfers/:address",
   "GET /token/supply/:contractaddress",
   "GET /token/balance/:contractaddress/:address"}

RouterRoutes(router) ==
  IF router = "mantle" THEN MantleRoutes ELSE BaseSepoliaRoutes

ExplorerPaths == BaseSepoliaRoutes \cup MantleRoutes

\* the routes the application object itself registers
AppRoutes == {"GET /", "GET /health", "POST /execute-contract", "GET /test-contract"}

\* the middleware in front of a route's handler
RouteGuard(route) ==
  CASE route \in {"GET /balance/:address", "GET /transactions/:address",
                  "GET /internal-transactions/:address",
                  "GET /token-transfers/:address", "GET /nft-transfers/:address",
                  "GET /contract/abi/:address", "GET /contract/source/:address",
                  "GET /token/supply/:contractaddress",
                  "GET /token/balance/:contractaddress/:address"}
         -> "validateAddress"
    [] route \in {"GET /internal-transactions-by-txhash/:txhash",
                  "GET /internal-tx/:txhash", "GET /transaction/status/:txhash",
                  "GET /transaction/receipt/:txhash"}
         -> "validateTxHash"
    [] route = "POST /execute-contract" -> "validateContractInput"
    [] OTHER -> "none"

\* the names a route's path pattern binds in req.params
ParamNames(route) ==
  CASE route \in {"GET /balance/:address", "GET /transactions/:address",
                  "GET /internal-transactions/:address",
                  "GET /token-transfers/:address", "GET /nft-transfers/:address",
                  "GET /contract/abi/:address", "GET /contract/source/:address"}
         -> {"address"}
    [] route \in {"GET /internal-transactions-by-txhash/:txhash",
                  "GET /internal-tx/:txhash", "GET /transaction/status/:txhash",
                  "GET /transaction/receipt/:txhash"}
         -> {"txhash"}
    [] route \in {"GET /block/reward/:blockno", "GET /block/countdown/:blockno"}
         -> {"blockno"}
    [] route = "GET /block/bytimestamp/:timestamp" -> {"timestamp"}
    [] route = "GET /token/supply/:contractaddress" -> {"contractaddress"}
    [] route = "GET /token/balance/:contractaddress/:address"
         -> {"contractaddress", "address"}
    [] OTHER -> {}

\* the resource group a route belongs to
RouteGroup(route) ==
  CASE route \in {"GET /balance/:address", "POST /balances"} -> "balances"
    [] route \in {"GET /transactions/:address", "GET /internal-transactions/:address",
                  "GET /internal-transactions-by-txhash/:txhash",
                  "GET /internal-tx/:txhash", "GET /transaction/status/:txhash",
                  "GET /transaction/receipt/:txhash"}
         -> "transactions"
    [] route \in {"GET /token-transfers/:address", "GET /nft-transfers/:address",
                  "GET /token/supply/:contractaddress",
                  "GET /token/balance/:contractaddress/:address"}
         -> "tokens"
    [] route \in {"GET /contract/abi/:address", "GET /contract/source/:address"}
         -> "contracts"
    [] route \in {"GET /block/reward/:blockno", "GET /block/countdown/:blockno",
                  "GET /block/bytimestamp/:timestamp"}
         -> "blocks"
    [] OTHER -> "none"

ResourceGroups == {"balances", "transactions", "tokens", "contracts", "blocks"}

\* ----------------------------------------------------------- requests
Request(router, route, params, query, body) ==
  [router |-> router, route |-> route, params |-> params, query |-> query,
   body |-> body]

NoRequest == Request("", "", NoParams, NoQuery, NoBody)

ParamSamples(name) ==
  CASE name = "address" -> AddressSamples
    [] name = "txhash" -> TxHashSamples
    [] name = "contractaddress" -> ContractAddressSamples
    [] OTHER -> BlockSamples

\* req.params of a request that matched the route: a string for every
\* name of the pattern, undefined for every other name
ParamValues(name, route) ==
  IF name \in ParamNames(route) THEN ParamSamples(name) ELSE {JSUndefined}

ParamChoices(route) ==
  {[address |-> a, txhash |-> t, contractaddress |-> c, blockno |-> b, timestamp |-> ts] :
     a \in ParamValues("address", route), t \in ParamValues("txhash", route),
     c \in ParamValues("contractaddress", route), b \in ParamValues("blockno", route),
     ts \in ParamValues("timestamp", route)}

ReadsQuery(route) ==
  route \in {"GET /transactions/:address", "GET /internal-transactions/:address",
             "GET /token-transfers/:address", "GET /nft-transfers/:address",
             "GET /block/bytimestamp/:timestamp"}

QueryChoices(route) ==
  IF ReadsQuery(route) THEN {NoQuery, FullQuery, EmptyQuery} ELSE {NoQuery}


\* n addresses, the first unlike the others
AddressList(n) == [i \in 1..n |-> IF i = 1 THEN MixedCaseAddress ELSE GoodAddress]

AddressesSamples ==
  {JSUndefined, GoodAddress, Arr(<<>>), Arr(<<GoodAddress>>),
   Arr(<<MixedCaseAddress, NonHexAddress>>), Arr(AddressList(MaxAddresses)),
   Arr(AddressList(MaxAddresses + 1))}

BodyChoices(route) ==
  IF route = "POST /balances"
  THEN {[NoBody EXCEPT !.addresses = a] : a \in AddressesSamples}
  ELSE {NoBody}

ExplorerRequests ==
  UNION {UNION {{Request(router, route, p, q, b) :
                   p \in ParamChoices(route), q \in QueryChoices(route),
                   b \in BodyChoices(route)} :
                route \in ExplorerPaths} :
         router \in ExplorerRouters}

\* ---------------------------------------------------------- responses
NoMetadata ==
  [contractAddress |-> JSUndefined, functionName |-> JSUndefined,
   functionParams |-> JSUndefined, value |-> JSUndefined]

\* res.status(status).json({success, data, error, metadata})
Response(status, success, data, error, metadata) ==
  [status |-> status, success |-> success, data |-> data, error |-> error,
   metadata |-> metadata, health |-> ""]

\* res.status(status).json({ success: false, error, timestamp })
Failure(status, error) == Response(status, Bool(FALSE), JSUndefined, error, NoMetadata)

\* res.json({ success: true, data, timestamp })
Success(data) == Response(200, Bool(TRUE), data, <<>>, NoMetadata)

\* Express's answer to a request no route matches
NotFound == Response(404, JSUndefined, JSUndefined, <<>>, NoMetadata)

\* ------------------------------------------------------ upstream world
\* What axios.get settles with: a transport failure, or a response whose
\* body is an object, null or a text that is not JSON
UpstreamBody(kind, status, result) == [kind |-> kind, status |-> status, result |-> result]

UpstreamOutcome(failed, message, body) ==
  [failed |-> failed, message |-> message, body |-> body]

NoUpstreamBody == UpstreamBody("none", JSUndefined, JSUndefined)

\* no answer yet
Pending == UpstreamOutcome(FALSE, <<"pending">>, NoUpstreamBody)

\* one axios.get: what it was called with and what it settled with
Exchange(params, reply) == [params |-> params, reply |-> reply]

UpstreamOutcomes ==
  {UpstreamOutcome(TRUE, <<"Network Error">>, NoUpstreamBody)}
  \cup {UpstreamOutcome(FALSE, <<>>, b) :
          b \in {UpstreamBody("object", Str(<<"1">>), Str(<<"1", "0", "0">>)),
                 UpstreamBody("object", Str(<<"1">>), Arr(<<>>)),
                 UpstreamBody("object", Str(<<"0">>), Str(<<"Max rate limit reached">>)),
                 UpstreamBody("object", Str(<<"0">>), Str(<<>>)),
                 UpstreamBody("object", Num(<<"0">>), Str(<<"7">>)),
                 UpstreamBody("object", JSUndefined, Str(<<"0x10">>)),
                 UpstreamBody("text", JSUndefined, JSUndefined),
                 UpstreamBody("null", JSUndefined, JSUndefined)}}

\* ---------------------------------------------------- explorer routers
\* const API_KEY = process.env....
ApiKey(router, e) ==
  IF router = "mantle" THEN e.MANTLE_EXPLORER_API_KEY
  ELSE e.BASE_SEPOLIA_EXPLORER_API_KEY

\* the prefix makeRequest's catch puts in front of every error message
ErrorPrefix(router) ==
  IF router = "mantle" THEN "Mantle Explorer API Error: " ELSE "Explorer API Error: "

ApiKeyNotSet(router) ==
  IF router = "mantle" THEN "MANTLE_EXPLORER_API_KEY environment variable is not set"
  ELSE "BASE_SEPOLIA_EXPLORER_API_KEY environment variable is not set"

Text(x) == Str(<<x>>)


\* C17 mutant: the defaults replace only a missing value, as destructuring
\* defaults would
ListParamsWhenMissing(q) ==
  [startblock |-> IF q.startblock.t = "undefined" THEN Text("0") ELSE q.startblock,
   endblock |-> IF q.endblock.t = "undefined" THEN Text("latest") ELSE q.endblock,
   page |-> IF q.page.t = "undefined" THEN Text("1") ELSE q.page,
   offset |-> IF q.offset.t = "undefined" THEN Text("10") ELSE q.offset,
   sort |-> IF q.sort.t = "undefined" THEN Text("desc") ELSE q.sort]

\* startblock, endblock, page, offset and sort with their defaults
ListParams(q) ==
  [startblock |-> Or(q.startblock, Text("0")),
   endblock |-> Or(q.endblock, Text("latest")),
   page |-> Or(q.page, Text("1")),
   offset |-> Or(q.offset, Text("10")),
   sort |-> Or(q.sort, Text("desc"))]

\* if (req.query.contractaddress) params.contractaddress = req.query.contractaddress
WithContractAddress(params, q) ==
  IF Truthy(q.contractaddress)
  THEN Merge(params, [contractaddress |-> q.contractaddress])
  ELSE params

\* The object each handler of the Mantle router hands to makeRequest
MantleParams(route, rq) ==
  CASE route = "GET /balance/:address" ->
         [module |-> Text("account"), action |-> Text("balance"),
          address |-> rq.params.address, tag |-> Text("latest")]
    [] route = "POST /balances" ->
         [module |-> Text("account"), action |-> Text("balancemulti"),
          address |-> Str(JoinText(rq.body.addresses.a, <<",">>)),
          tag |-> Text("latest")]
    [] route = "GET /transactions/:address" ->
         Merge([module |-> Text("account"), action |-> Text("txlist"),
                address |-> rq.params.address], ListParams(rq.query))
    [] route = "GET /internal-transactions/:address" ->
         Merge([module |-> Text("account"), action |-> Text("txlistinternal"),
                address |-> rq.params.address], ListParams(rq.query))
    [] route = "GET /internal-tx/:txhash" ->
         [module |-> Text("account"), action |-> Text("txlistinternal"),
          txhash |-> rq.params.txhash]
    [] route = "GET /token-transfers/:address" ->
         WithContractAddress(
           Merge([module |-> Text("account"), action |-> Text("tokentx"),
                  address |-> rq.params.address], ListParams(rq.query)),
           rq.query)
    [] route = "GET /nft-transfers/:address" ->
         WithContractAddress(
           Merge([module |-> Text("account"), action |-> Text("tokennfttx"),
                  address |-> rq.params.address], ListParams(rq.query)),
           rq.query)
    [] route = "GET /token/supply/:contractaddress" ->
         [module |-> Text("stats"), action |-> Text("tokensupply"),
          contractaddress |-> rq.params.contractaddress]
    [] route = "GET /token/balance/:contractaddress/:address" ->
         [module |-> Text("account"), action |-> Text("tokenbalance"),
          contractaddress |-> rq.params.contractaddress,
          address |-> rq.params.address, tag |-> Text("latest")]

\* The object each handler of the Base Sepolia router hands to makeRequest
BaseSepoliaParams(route, rq) ==
  CASE route = "GET /balance/:address" ->
         [module |-> Text("account"), action |-> Text("balance"),
          address |-> rq.params.address, tag |-> Text("latest")]
    [] route = "POST /balances" ->
         [module |-> Text("account"), action |-> Text("balancemulti"),
          address |-> Str(JoinText(rq.body.addresses.a, <<",">>))]
    [] route = "GET /transactions/:address" ->
         Merge([module |-> Text("account"), action |-> Text("txlist"),
                address |-> rq.params.address], ListParams(rq.query))
    [] route = "GET /internal-transactions/:address" ->
         Merge([module |-> Text("account"), action |-> Text("txlistinternal"),
                address |-> rq.params.address], ListParams(rq.query))
    [] route = "GET /internal-transactions-by-txhash/:txhash" ->
         [module |-> Text("account"), action |-> Text("txlistinternal"),
          txhash |-> rq.params.txhash]
    [] route = "GET /token-transfers/:address" ->
         WithContractAddress(
           Merge([module |-> Text("account"), action |-> Text("tokentx"),
                  address |-> rq.params.address], ListParams(rq.query)),
           rq.query)
    [] route = "GET /nft-transfers/:address" ->
         WithContractAddress(
           Merge([module |-> Text("account"), action |-> Text("tokennfttx"),
                  address |-> rq.params.address], ListParams(rq.query)),
           rq.query)
    [] route = "GET /contract/abi/:address" ->
         [module |-> Text("contract"), action |-> Text("getabi"),
          address |-> rq.params.address]
    [] route = "GET /contract/source/:address" ->
         [module |-> Text("contract"), action |-> Text("getsourcecode"),
          address |-> rq.params.address]
    [] route = "GET /transaction/status/:txhash" ->
         [module |-> Text("transaction"), action |-> Text("getstatus"),
          txhash |-> rq.params.txhash]
    [] route = "GET /transaction/receipt/:txhash" ->
         [module |-> Text("transaction"), action |-> Text("gettxreceiptstatus"),
          txhash |-> rq.params.txhash]
    [] route = "GET /block/reward/:blockno" ->
         [module |-> Text("block"), action |-> Text("getblockreward"),
          blockno |-> rq.params.blockno]
    [] route = "GET /block/countdown/:blockno" ->
         [module |-> Text("block"), action |-> Text("getblockcountdown"),
          blockno |-> rq.params.blockno]
    [] route = "GET /block/bytimestamp/:timestamp" ->
         [module |-> Text("block"), action |-> Text("getblocknobytime"),
          timestamp |-> rq.params.timestamp,
          closest |-> Or(rq.query.closest, Text("before"))]
    [] route = "GET /token/supply/:contractaddress" ->
         [module |-> Text("stats"), action |-> Text("tokensupply"),
          contractaddress |-> rq.params.contractaddress]
    [] route = "GET /token/balance/:contractaddress/:address" ->
         [module |-> Text("account"), action |-> Text("tokenbalance"),
          contractaddress |-> rq.params.contractaddress,
          address |-> rq.params.address, tag |-> Text("latest")]

RouteParams(rq) ==
  IF rq.router = "mantle" THEN MantleParams(rq.route, rq)
  ELSE BaseSepoliaParams(rq.route, rq)


\* C7 mutant: the pattern has lost its $, so that a prefix of the
\* parameter is enough
validateAddressUnanchored(rq) ==
  LET text == ToText(rq.params.address)
  IN /\ Len(text) >= 2 + AddressHexLen
     /\ AddressRegexTest(Str(SubSeq(text, 1, 2 + AddressHexLen)))

\* validateAddress: does the middleware call next()?
validateAddress(rq) == AddressRegexTest(rq.params.address)

\* validateTxHash: does the middleware call next()?
validateTxHash(rq) == TxHashRegexTest(rq.params.txhash)

\* the middleware in front of an explorer route lets the request through
GuardPasses(rq) ==
  CASE RouteGuard(rq.route) = "validateAddress" -> validateAddress(rq)
    [] RouteGuard(rq.route) = "validateTxHash" -> validateTxHash(rq)
    [] OTHER -> TRUE


\* C16 mutant: the handler refuses a list of MaxAddresses elements
AddressesAcceptedBelowMax(addresses) ==
  ~(~IsArray(addresses) \/ Len(addresses.a) = 0 \/ Len(addresses.a) >= MaxAddresses)

\* POST /balances: the handler's own check of req.body.addresses
AddressesAccepted(addresses) ==
  ~(~IsArray(addresses) \/ Len(addresses.a) = 0 \/ Len(addresses.a) > MaxAddresses)


\* C15 mutant: makeRequest does not test API_KEY
makeRequestNoKeyTest(router, e) == FALSE

\* makeRequest up to its await: does it throw before sending anything?
makeRequestThrowsEarly(router, e) == ApiKey(router, e) = ""

\* makeRequest: the parameters axios.get is called with
makeRequestParams(router, e, params) ==
  Merge(params, [apikey |-> Text(ApiKey(router, e))])

\* C8 mutant: the status of the upstream body is not looked at
makeRequestIgnoringStatus(router, outcome) ==
  IF outcome.failed
  THEN [threw |-> TRUE, value |-> JSUndefined,
        message |-> <<ErrorPrefix(router)>> \o outcome.message]
  ELSE IF outcome.body.kind = "null"
  THEN [threw |-> TRUE, value |-> JSUndefined,
        message |-> <<ErrorPrefix(router), "Cannot read properties of null (reading 'status')">>]
  ELSE [threw |-> FALSE, value |-> outcome.body.result, message |-> <<>>]

\* makeRequest after its await: [threw, value, message]
makeRequest(router, outcome) ==
  IF outcome.failed
  THEN [threw |-> TRUE, value |-> JSUndefined,
        message |-> <<ErrorPrefix(router)>> \o outcome.message]
  ELSE IF outcome.body.kind = "null"
  THEN [threw |-> TRUE, value |-> JSUndefined,
        message |-> <<ErrorPrefix(router), "Cannot read properties of null (reading 'status')">>]
  ELSE IF outcome.body.status = Str(<<"0">>)
  THEN [threw |-> TRUE, value |-> JSUndefined,
        message |-> <<ErrorPrefix(router)>>
                      \o (IF Truthy(outcome.body.result) THEN ToText(outcome.body.result)
                          ELSE <<"API request failed">>)]
  ELSE [threw |-> FALSE, value |-> outcome.body.result, message |-> <<>>]

\* ------------------------------------------------------ keys and chain
\* A key pair is named by where it comes from; its address is the address
\* computed from it.
Key(kind, id) == [kind |-> kind, id |-> id]
NoKey == Key("none", 0)
WalletKey == Key("wallet", 0)

\* ethers.utils.computeAddress
computeAddress(key) == [owner |-> key]
NoAddress == computeAddress(NoKey)

\* ethersWallet.address
WalletAddress == computeAddress(WalletKey)

\* "0x063145aa5f16FAD2C8179c1E0Ff1a1a39D95AF9d", and the key it belongs to
HardcodedKey == Key("0x063145aa", 0)
HardcodedRecipient == computeAddress(HardcodedKey)

\* an amount of ether: milli * 10^15 + wei, with wei < 10^15
Amount(milli, wei) == [milli |-> milli, wei |-> wei]
ZeroAmount == Amount(0, 0)
AmountLess(x, y) == x.milli < y.milli \/ (x.milli = y.milli /\ x.wei < y.wei)

\* ethers.utils.parseEther: [ok, amount]; it throws on what is no decimal string
parseEther(v) ==
  CASE v = Str(<<"0">>) -> [ok |-> TRUE, amount |-> ZeroAmount]
    [] v = Str(<<"1">>) -> [ok |-> TRUE, amount |-> Amount(1000, 0)]
    [] v = Str(<<"0.001">>) -> [ok |-> TRUE, amount |-> Amount(1, 0)]
    [] OTHER -> [ok |-> FALSE, amount |-> ZeroAmount]


\* C12 mutant: the comparison is <= where the code has <
NeedsFundingAtThreshold(bal) == ~AmountLess(Amount(0, MinBalanceWei), bal)

\* Number(formatEther(bal)) < Number(formatEther(25000)): both sides are the
\* doubles nearest to wei * 10^-18; below 25000 wei they have at most five
\* significant digits, so the comparison of the doubles is that of the amounts
NeedsFunding(bal) == AmountLess(bal, Amount(0, MinBalanceWei))

\* a quantity as a transaction field holds it: BigNumber, hex string or number
BigNumber(n) == [form |-> "BigNumber", n |-> n]
\* BigNumber.prototype.toHexString
toHexString(b) == [form |-> "hex", n |-> b.n]
Number(n) == [form |-> "number", n |-> n]

\* contract.interface.encodeFunctionData: the selector and the encoded arguments
FunctionData(name, params) == [selector |-> name, args |-> params]
NoData == FunctionData(JSUndefined, JSUndefined)

\* does the ABI hold a function of that name taking that many arguments?
AbiHasFunction(abi, name, params) ==
  /\ IsArray(abi) /\ IsArray(params)
  /\ \E i \in 1..Len(abi.a) :
       abi.a[i].s = ToText(name) /\ Len(abi.a[i].a) = Len(params.a)

Tx(to, data, value, gasLimit, gasPrice, nonce, chainId) ==
  [to |-> to, data |-> data, value |-> value, gasLimit |-> gasLimit,
   gasPrice |-> gasPrice, nonce |-> nonce, chainId |-> chainId]
NoTx == Tx(NoAddress, NoData, BigNumber(ZeroAmount), Number(0), Number(0), 0, 0)

\* ethers.utils.serializeTransaction of an unsigned transaction: the fields
\* in the order RLP lists them
serializeTransaction(tx) ==
  <<tx.nonce, tx.gasPrice.n, tx.gasLimit.n, tx.to, tx.value.n, tx.data, tx.chainId>>

\* ethers.utils.keccak256, taken to be free of collisions
keccak256(bytes) == [keccak256 |-> bytes]
NoHash == keccak256(<<>>)

\* ethers.utils.arrayify
arrayify(hash) == [bytes |-> hash]

\* getEnv of ./utils.js
getEnv(e, name) == e[name]

\* getChainInfo of ./utils.js
getChainInfo(chain) ==
  IF chain = "mantle"
  THEN [found |-> TRUE, chainId |-> 5000, rpcUrl |-> "https://rpc.mantle.xyz"]
  ELSE [found |-> FALSE, chainId |-> 0, rpcUrl |-> ""]

\* validateEnvironment: the names it reports missing, in order
MissingEnvironment(e) ==
  SelectSeq(<<"ETHEREUM_PRIVATE_KEY", "CHAIN_TO_SEND_TX_ON">>,
            LAMBDA key : getEnv(e, key) = "")

RECURSIVE JoinNames(_, _)
JoinNames(names, sep) ==
  IF names = <<>> THEN <<>>
  ELSE IF Len(names) = 1 THEN names
  ELSE <<Head(names), sep>> \o JoinNames(Tail(names), sep)


\* C14 mutant: only the first missing variable is reported
validateEnvironmentFirstOnly(e) ==
  LET missing == MissingEnvironment(e)
  IN [threw |-> Len(missing) > 0,
      message |-> <<"Missing required environment variables: ">>
                    \o (IF missing = <<>> THEN <<>> ELSE <<Head(missing)>>)]

\* validateEnvironment: [threw, message]
validateEnvironment(e) ==
  LET missing == MissingEnvironment(e)
  IN [threw |-> Len(missing) > 0,
      message |-> <<"Missing required environment variables: ">>
                    \o JoinNames(missing, ", ")]

\* --------------------------------------------------------- environment
\* process.env as the modules read it when they are loaded; "" is a
\* variable that is not set
EnvSettings ==
  [ETHEREUM_PRIVATE_KEY : {"", "0xPRIVATEKEY"},
   CHAIN_TO_SEND_TX_ON : {"", "unknownChain", "mantle"},
   LIT_PKP_PUBLIC_KEY : {NoKey, HardcodedKey, Key("configured", 0)},
   LIT_CAPACITY_CREDIT_TOKEN_ID : {"", "credit#configured"},
   MANTLE_EXPLORER_API_KEY : {"", "mantle-key"},
   BASE_SEPOLIA_EXPLORER_API_KEY : {"", "base-key"}]

\* every setting of the explorers' keys and every setting of what the
\* orchestration reads, each with the other part fully configured
EnvChoices ==
  {e \in EnvSettings :
     \/ /\ e.MANTLE_EXPLORER_API_KEY # ""
        /\ e.BASE_SEPOLIA_EXPLORER_API_KEY # ""
     \/ /\ e.ETHEREUM_PRIVATE_KEY # ""
        /\ e.CHAIN_TO_SEND_TX_ON = "mantle"
        /\ e.LIT_PKP_PUBLIC_KEY = Key("configured", 0)
        /\ e.LIT_CAPACITY_CREDIT_TOKEN_ID # ""}

\* ------------------------------------------------ what the world answers
BalanceSamples ==
  {ZeroAmount, Amount(0, MinBalanceWei - 1), Amount(0, MinBalanceWei), Amount(1, 0)}
GasPriceSamples == {3}
GasEstimateSamples == {0, 9, 21001}
TxCountSamples == 0..MaxNonce
MintedKeys == {Key("minted", k) : k \in 1..MaxMint}
MintedCredits == {"credit#minted"}
ExecuteJsResults == {Obj(<<"signedTransaction">>), JSUndefined}

\* ------------------------------------------------- orchestration runs
NoArgs ==
  [contractAddress |-> JSUndefined, contractABI |-> JSUndefined,
   functionName |-> JSUndefined, functionParams |-> JSUndefined,
   valueInEther |-> JSUndefined]

NoOutcome == [kind |-> "none", value |-> JSUndefined, message |-> <<>>]
Returned(value) == [kind |-> "return", value |-> value, message |-> <<>>]
Thrown(message) == [kind |-> "throw", value |-> JSUndefined, message |-> message]

NoPkp == [publicKey |-> NoKey, ethAddress |-> NoAddress]

\* what an external call is given, as far as the model follows it
NoCallArgs ==
  [address |-> NoAddress, tx |-> NoTx, publicKey |-> NoKey,
   toSign |-> arrayify(NoHash), capacityTokenId |-> "", result |-> 0]

\* one entry of a run's record of its external calls: the call was issued
\* ("call"), it returned ("done") or it failed ("fail")
Event(ev, op, args) == [ev |-> ev, op |-> op, args |-> args]

\* The locals of signAndExecuteContractTx / signAndCombineAndSendTx
NoRun ==
  [fn |-> "", args |-> NoArgs, litNodeClient |-> FALSE, pkpInfo |-> NoPkp,
   bal |-> ZeroAmount, gasPrice |-> 0, estimatedGas |-> 0, functionData |-> NoData,
   fundingTx |-> NoTx, unsignedTransaction |-> NoTx,
   unsignedTransactionHash |-> NoHash, capacityTokenId |-> "",
   log |-> <<>>, body |-> NoOutcome, outcome |-> NoOutcome]

\* -------------------------------------------------------------- state
VARIABLES
  env,        \* process.env, read once when the modules are loaded
  pc,         \* pc[r]: where the handling of request r stands
  req,        \* req[r]: the request in slot r
  responses,  \* responses[r]: the responses sent for request r, in order
  upstream,   \* upstream[r]: every axios.get issued for r, with its reply
  run,        \* run[r]: the locals of the orchestration function r invoked
  txCount     \* the chain's transaction count of the funding wallet

vars == <<env, pc, req, responses, upstream, run, txCount>>

Init ==
  /\ env \in EnvChoices
  /\ pc = [r \in Reqs |-> "idle"]
  /\ req = [r \in Reqs |-> NoRequest]
  /\ responses = [r \in Reqs |-> <<>>]
  /\ upstream = [r \in Reqs |-> <<>>]
  /\ run = [r \in Reqs |-> NoRun]
  /\ txCount = 0

\* A slot is free until a request enters it
Free(r) == pc[r] = "idle"

\* The server takes the lowest free slot for an arriving request
Accepts(r) == Free(r) /\ \A q \in 1..(r - 1) : ~Free(q)

\* Requests are handled one after the other
Serial(r) == \A q \in Reqs \ {r} : Free(q)

\* The request enters slot r and the handler answers it at once
Answer(r, rq, response) ==
  /\ pc' = [pc EXCEPT ![r] = "done"]
  /\ req' = [req EXCEPT ![r] = rq]
  /\ responses' = [responses EXCEPT ![r] = <<response>>]
  /\ upstream' = [upstream EXCEPT ![r] = <<>>]
  /\ UNCHANGED <<env, run>>

\* An explorer route's handler up to its await of axios.get, the route's
\* middleware included
ExplorerHandler(r, rq) ==
  IF rq.route \notin RouterRoutes(rq.router)
  THEN Answer(r, rq, NotFound)
  ELSE IF ~GuardPasses(rq)
  THEN Answer(r, rq, Failure(400,
         IF RouteGuard(rq.route) = "validateAddress"
         THEN <<"Invalid address format">>
         ELSE <<"Invalid transaction hash format">>))
  ELSE IF rq.route = "POST /balances" /\ ~AddressesAccepted(rq.body.addresses)
  THEN Answer(r, rq, Failure(400,
         <<"Invalid addresses array. Must contain 1-20 addresses.">>))
  ELSE IF makeRequestThrowsEarly(rq.router, env)
  THEN Answer(r, rq, Failure(500,
         <<ErrorPrefix(rq.router), ApiKeyNotSet(rq.router)>>))
  ELSE /\ pc' = [pc EXCEPT ![r] = "axios"]
       /\ req' = [req EXCEPT ![r] = rq]
       /\ responses' = [responses EXCEPT ![r] = <<>>]
       /\ upstream' = [upstream EXCEPT ![r] =
            <<Exchange(makeRequestParams(rq.router, env, RouteParams(rq)), Pending)>>]
       /\ UNCHANGED <<env, run>>

ExplorerRequest(r) ==
  /\ UNCHANGED txCount
  /\ Accepts(r)
  /\ \E rq \in ExplorerRequests : ExplorerHandler(r, rq)

\* axios.get settles: the rest of makeRequest and of the route's handler
AxiosSettles(r) ==
  /\ UNCHANGED txCount
  /\ pc[r] = "axios"
  /\ \E outcome \in UpstreamOutcomes :
       LET result == makeRequest(req[r].router, outcome)
       IN /\ responses' = [responses EXCEPT ![r] =
               Append(@, IF result.threw THEN Failure(500, result.message)
                         ELSE Success(result.value))]
          /\ upstream' = [upstream EXCEPT ![r] = [@ EXCEPT ![Len(@)].reply = outcome]]
  /\ pc' = [pc EXCEPT ![r] = "done"]
  /\ UNCHANGED <<env, req, run>>

\* app.get('/') and app.get('/health')
HealthResponse ==
  [Response(200, JSUndefined, JSUndefined, <<>>, NoMetadata) EXCEPT !.health = "healthy"]

HealthRequest(r) ==
  /\ UNCHANGED txCount
  /\ Accepts(r)
  /\ \E route \in {"GET /", "GET /health"} :
       Answer(r, Request("app", route, NoParams, NoQuery, NoBody), HealthResponse)

\* ------------------------------------------- POST /execute-contract etc.
\* TEST_CONTRACT
TestContractAddress == Str(<<"0", "x", "2", "0", "e", "3", "0", "5", "f", "7">>
                           \o Rep("1", AddressHexLen - 8))
StoreFunction == [t |-> "object", s |-> <<"store">>, a |-> <<Text("uint256")>>]
RetrieveFunction == [t |-> "object", s |-> <<"retrieve">>, a |-> <<>>]
TestContractAbi == Arr(<<StoreFunction, RetrieveFunction>>)

GoodBody ==
  [NoBody EXCEPT !.contractAddress = GoodAddress, !.contractABI = TestContractAbi,
                 !.functionName = Text("store"),
                 !.functionParams = Arr(<<Num(<<"56">>)>>)]

\* the bodies POST /execute-contract is tried with: the good one, and the
\* good one with one field (or two) changed
ExecuteBodies ==
  {GoodBody, NoBody}
  \cup {[GoodBody EXCEPT !.contractAddress = v] :
          v \in {JSUndefined, Str(<<>>), ShortAddress, LongAddress, NonHexAddress,
                 UpperPrefixAddress, MixedCaseAddress, Arr(<<GoodAddress>>)}}
  \cup {[GoodBody EXCEPT !.contractABI = v] :
          v \in {JSUndefined, Text("[]"), Arr(<<>>), Obj(<<"abi">>)}}
  \cup {[GoodBody EXCEPT !.functionName = v] :
          v \in {JSUndefined, Str(<<>>), Text("retrieve")}}
  \cup {[GoodBody EXCEPT !.functionParams = v] :
          v \in {JSUndefined, JSNull, Arr(<<>>), Text("56"), Num(<<"0">>), Obj(<<"params">>)}}
  \cup {[GoodBody EXCEPT !.value = v] : v \in {Text("1"), Text("abc"), JSNull}}
  \cup {[GoodBody EXCEPT !.contractAddress = NonHexAddress, !.contractABI = Text("[]")],
        [GoodBody EXCEPT !.contractABI = Obj(<<"abi">>), !.functionParams = Text("56")]}


\* C6 mutant: the check that functionParams is an array is left out
validateContractInputNoParamsCheck(body) ==
  IF ~Truthy(body.contractAddress) \/ ~Truthy(body.contractABI)
     \/ ~Truthy(body.functionName) \/ ~Truthy(body.functionParams)
  THEN <<"Missing required fields. Please provide contractAddress, contractABI, functionName, and functionParams">>
  ELSE IF ~AddressRegexTest(body.contractAddress)
  THEN <<"Invalid contract address format">>
  ELSE IF ~IsArray(body.contractABI)
  THEN <<"Contract ABI must be an array">>
  ELSE <<>>

\* validateContractInput: the error it answers with, <<>> when it calls next()
validateContractInput(body) ==
  IF ~Truthy(body.contractAddress) \/ ~Truthy(body.contractABI)
     \/ ~Truthy(body.functionName) \/ ~Truthy(body.functionParams)
  THEN <<"Missing required fields. Please provide contractAddress, contractABI, functionName, and functionParams">>
  ELSE IF ~AddressRegexTest(body.contractAddress)
  THEN <<"Invalid contract address format">>
  ELSE IF ~IsArray(body.contractABI)
  THEN <<"Contract ABI must be an array">>
  ELSE IF ~IsArray(body.functionParams)
  THEN <<"Function parameters must be an array">>
  ELSE <<>>

\* a destructuring or parameter default: it replaces undefined only
Default(v, d) == IF v.t = "undefined" THEN d ELSE v

\* error.message || 'Internal server error'
ErrorMessage(message) == IF message # <<>> THEN message ELSE <<"Internal server error">>


\* C20 mutant: the handler does not test the result before answering
ExecuteContractResponseUntested(rq, outcome) ==
  IF outcome.kind = "throw" THEN Failure(500, ErrorMessage(outcome.message))
  ELSE Response(200, Bool(TRUE), outcome.value, <<>>,
                [contractAddress |-> rq.body.contractAddress,
                 functionName |-> rq.body.functionName,
                 functionParams |-> rq.body.functionParams,
                 value |-> Default(rq.body.value, Text("0"))])

\* what the handler of POST /execute-contract answers once the call settled
ExecuteContractResponse(rq, outcome) ==
  IF outcome.kind = "throw" THEN Failure(500, ErrorMessage(outcome.message))
  ELSE IF ~Truthy(outcome.value) THEN Failure(500, <<"Contract interaction failed">>)
  ELSE Response(200, Bool(TRUE), outcome.value, <<>>,
                [contractAddress |-> rq.body.contractAddress,
                 functionName |-> rq.body.functionName,
                 functionParams |-> rq.body.functionParams,
                 value |-> Default(rq.body.value, Text("0"))])

\* what the handler of GET /test-contract answers once the call settled
TestContractResponse(outcome) ==
  IF outcome.kind = "throw" THEN Failure(500, ErrorMessage(outcome.message))
  ELSE IF ~Truthy(outcome.value) THEN Failure(500, <<"Test contract interaction failed">>)
  ELSE Response(200, Bool(TRUE), outcome.value, <<>>,
                [contractAddress |-> TestContractAddress,
                 functionName |-> Text("store"),
                 functionParams |-> Arr(<<Num(<<"56">>)>>),
                 value |-> JSUndefined])


\* C21 mutant: the handlers have no catch, and a rejected call leaves the
\* request without a response
CallerResponsesNoCatch(rq, outcome) ==
  CASE outcome.kind = "throw" -> <<>>
    [] rq.route = "POST /execute-contract" -> <<ExecuteContractResponse(rq, outcome)>>
    [] rq.route = "GET /test-contract" -> <<TestContractResponse(outcome)>>
    [] OTHER -> <<>>

\* the continuation of whoever awaits the orchestration function
CallerResponses(rq, outcome) ==
  CASE rq.route = "POST /execute-contract" -> <<ExecuteContractResponse(rq, outcome)>>
    [] rq.route = "GET /test-contract" -> <<TestContractResponse(outcome)>>
    [] OTHER -> <<>>

\* ------------------------------------ the orchestration, await by await
ExecuteFn == "signAndExecuteContractTx"
CombineFn == "signAndCombineAndSendTx"

\* The run goes on in state rn and awaits the external call op
Await(r, rq, rn, op, args) ==
  /\ pc' = [pc EXCEPT ![r] = op]
  /\ req' = [req EXCEPT ![r] = rq]
  /\ run' = [run EXCEPT ![r] = [rn EXCEPT !.log = Append(@, Event("call", op, args))]]
  /\ UNCHANGED <<env, responses, upstream>>

\* The function's promise settles with outcome and its caller goes on
Settle(r, rq, rn, outcome) ==
  /\ pc' = [pc EXCEPT ![r] = "done"]
  /\ req' = [req EXCEPT ![r] = rq]
  /\ run' = [run EXCEPT ![r] = [rn EXCEPT !.outcome = outcome]]
  /\ responses' = [responses EXCEPT ![r] = @ \o CallerResponses(rq, outcome)]
  /\ UNCHANGED <<env, upstream>>


\* C9 mutant: the finally block disconnects without testing litNodeClient
DisconnectsAlways(rn) == TRUE

\* finally: if (litNodeClient)
DisconnectsOnExit(rn) == rn.litNodeClient

\* The function leaves its try and catch blocks with rn.body: the finally block
Exit(r, rq, rn) ==
  IF DisconnectsOnExit(rn)
  THEN Await(r, rq, rn, "litNodeClient.disconnect", NoCallArgs)
  ELSE Settle(r, rq, rn, rn.body)

\* catch (error) { throw error }
Throw(r, rq, rn, message) == Exit(r, rq, [rn EXCEPT !.body = Thrown(message)])

\* return result
Return(r, rq, rn, value) == Exit(r, rq, [rn EXCEPT !.body = Returned(value)])

\* the awaited call returned
Done(r) == [run[r] EXCEPT !.log = Append(@, Event("done", pc[r], NoCallArgs))]

\* the awaited call returned the number result
DoneWith(r, result) ==
  [run[r] EXCEPT
     !.log = Append(@, Event("done", pc[r], [NoCallArgs EXCEPT !.result = result]))]


\* what the error of a failed call of op may carry as its message: a text,
\* or nothing
ErrorTexts(op) == {<<op, " failed">>, <<>>}

\* the awaited call failed: its error is thrown where it was awaited
Failed(r) ==
  \E message \in ErrorTexts(pc[r]) :
    Throw(r, req[r],
          [run[r] EXCEPT !.log = Append(@, Event("fail", pc[r], NoCallArgs))],
          message)

\* The function is called: everything up to await litContracts.connect()
Invoke(r, rq, fn, args) ==
  LET rn == [NoRun EXCEPT !.fn = fn, !.args = args,
                          !.pkpInfo.publicKey = env.LIT_PKP_PUBLIC_KEY]
      checked == validateEnvironment(env)
      chainInfo == getChainInfo(env.CHAIN_TO_SEND_TX_ON)
  IN IF checked.threw THEN Throw(r, rq, rn, checked.message)
     ELSE IF ~chainInfo.found
     THEN Throw(r, rq, rn, <<"Invalid chain configuration for ", env.CHAIN_TO_SEND_TX_ON>>)
     ELSE Await(r, rq, rn, "litContracts.connect", NoCallArgs)

\* app.post('/execute-contract', validateContractInput, ...)
ExecuteContractRequest(r) ==
  /\ UNCHANGED txCount
  /\ Accepts(r)
  /\ \E body \in ExecuteBodies :
       LET rq == Request("app", "POST /execute-contract", NoParams, NoQuery, body)
       IN IF validateContractInput(body) # <<>>
          THEN Answer(r, rq, Failure(400, validateContractInput(body)))
          ELSE Invoke(r, rq, ExecuteFn,
                      [contractAddress |-> body.contractAddress,
                       contractABI |-> body.contractABI,
                       functionName |-> body.functionName,
                       functionParams |-> body.functionParams,
                       valueInEther |-> Default(body.value, Text("0"))])


\* C2 mutant: the test endpoint answers with a canned result
TestContractStub(r) ==
  /\ UNCHANGED txCount
  /\ Accepts(r)
  /\ Answer(r, Request("app", "GET /test-contract", NoParams, NoQuery, NoBody),
            Success(Obj(<<"signedTransaction">>)))

\* app.get('/test-contract', ...)
TestContractRequest(r) ==
  /\ UNCHANGED txCount
  /\ Accepts(r)
  /\ Invoke(r, Request("app", "GET /test-contract", NoParams, NoQuery, NoBody),
            ExecuteFn,
            [contractAddress |-> TestContractAddress, contractABI |-> TestContractAbi,
             functionName |-> Text("store"),
             functionParams |-> Arr(<<Num(<<"56">>)>>), valueInEther |-> Text("0")])

\* a module that imports signAndCombineAndSendTx calls it
CombineCall(r) ==
  /\ UNCHANGED txCount
  /\ Accepts(r)
  /\ Invoke(r, Request("module", "signAndCombineAndSendTx()", NoParams, NoQuery, NoBody),
            CombineFn, NoArgs)

\* await ethersProvider.getBalance(pkpInfo.ethAddress)
CheckBalance(r, rq, rn) ==
  Await(r, rq, rn, "getBalance", [NoCallArgs EXCEPT !.address = rn.pkpInfo.ethAddress])


\* C11 mutant: a PKP is minted whether or not one is configured
LitContractsConnectAlwaysMints(r) ==
  /\ UNCHANGED txCount
  /\ pc[r] = "litContracts.connect"
  /\ \/ Failed(r)
     \/ Await(r, req[r], Done(r), "pkpNftContractUtils.write.mint", NoCallArgs)

\* await litContracts.connect() returned: the PKP is minted or derived
LitContractsConnectSettles(r) ==
  /\ UNCHANGED txCount
  /\ pc[r] = "litContracts.connect"
  /\ \/ Failed(r)
     \/ IF env.LIT_PKP_PUBLIC_KEY = NoKey
        THEN Await(r, req[r], Done(r), "pkpNftContractUtils.write.mint", NoCallArgs)
        ELSE CheckBalance(r, req[r],
               [Done(r) EXCEPT !.pkpInfo =
                  [publicKey |-> env.LIT_PKP_PUBLIC_KEY,
                   ethAddress |-> computeAddress(env.LIT_PKP_PUBLIC_KEY)]])

\* await litContracts.pkpNftContractUtils.write.mint() returned mintResult
MintSettles(r) ==
  /\ UNCHANGED txCount
  /\ pc[r] = "pkpNftContractUtils.write.mint"
  /\ \/ Failed(r)
     \/ \E key \in MintedKeys :
          CheckBalance(r, req[r],
            [Done(r) EXCEPT !.pkpInfo =
               [publicKey |-> key, ethAddress |-> computeAddress(key)]])

\* litNodeClient = new LitNodeClient(...); await litNodeClient.connect()
ConnectLitNodeClient(r, rq, rn) ==
  \/ Throw(r, rq, rn, <<"new LitNodeClient", " failed">>)
  \/ Await(r, rq, [rn EXCEPT !.litNodeClient = TRUE], "litNodeClient.connect", NoCallArgs)

\* await ethersProvider.getBalance(...) returned bal
GetBalanceSettles(r) ==
  /\ UNCHANGED txCount
  /\ pc[r] = "getBalance"
  /\ \/ Failed(r)
     \/ \E bal \in BalanceSamples :
          LET rn == [Done(r) EXCEPT !.bal = bal]
          IN IF NeedsFunding(bal)
             THEN Await(r, req[r], rn, "fundingTx.getGasPrice", NoCallArgs)
             ELSE ConnectLitNodeClient(r, req[r], rn)

\* fundingTx.gasPrice: await ethersWallet.getGasPrice() returned
FundingGasPriceSettles(r) ==
  /\ UNCHANGED txCount
  /\ pc[r] = "fundingTx.getGasPrice"
  /\ \/ Failed(r)
     \/ \E gasPrice \in GasPriceSamples :
          Await(r, req[r], [Done(r) EXCEPT !.gasPrice = gasPrice],
                "fundingTx.getTransactionCount",
                [NoCallArgs EXCEPT !.address = WalletAddress])

\* signAndExecuteContractTx: const fundingTx = {...}
ExecuteFundingTx(pkpInfo, gasPrice, nonce, chainInfo) ==
  Tx(pkpInfo.ethAddress, NoData, BigNumber(parseEther(Text("0.001")).amount),
     toHexString(BigNumber(FundingGasLimit)), toHexString(BigNumber(gasPrice)),
     nonce, chainInfo.chainId)

\* signAndCombineAndSendTx: const fundingTx = {...}
CombineFundingTx(pkpInfo, gasPrice, nonce, chainInfo) ==
  Tx(HardcodedRecipient, NoData, BigNumber(parseEther(Text("0.001")).amount),
     Number(FundingGasLimit), toHexString(BigNumber(gasPrice)),
     nonce, chainInfo.chainId)

\* fundingTx.nonce: await ethersProvider.getTransactionCount(ethersWallet.address)
\* returned; the transaction is sent
FundingNonceSettles(r) ==
  /\ UNCHANGED txCount
  /\ pc[r] = "fundingTx.getTransactionCount"
  /\ \/ Failed(r)
     \/ LET nonce == txCount
              chainInfo == getChainInfo(env.CHAIN_TO_SEND_TX_ON)
              fundingTx ==
                IF run[r].fn = ExecuteFn
                THEN ExecuteFundingTx(run[r].pkpInfo, run[r].gasPrice, nonce, chainInfo)
                ELSE CombineFundingTx(run[r].pkpInfo, run[r].gasPrice, nonce, chainInfo)
       IN Await(r, req[r], [DoneWith(r, nonce) EXCEPT !.fundingTx = fundingTx],
                "sendTransaction", [NoCallArgs EXCEPT !.tx = fundingTx])


\* C1 mutant: the funded run goes on without waiting for the receipt
SendTransactionNoWait(r) ==
  /\ UNCHANGED txCount
  /\ pc[r] = "sendTransaction"
  /\ \/ Failed(r)
     \/ ConnectLitNodeClient(r, req[r], Done(r))

\* await ethersWallet.sendTransaction(fundingTx) returned
SendTransactionSettles(r) ==
  /\ UNCHANGED txCount
  /\ pc[r] = "sendTransaction"
  /\ \/ Failed(r)
     \/ Await(r, req[r], Done(r), "fundingTx.wait", NoCallArgs)

\* the chain takes tx of the funding wallet into a block: its nonce is the
\* wallet's count, which goes up by one
Mined(tx) ==
  /\ tx.nonce = txCount
  /\ txCount < MaxNonce
  /\ txCount' = txCount + 1

\* await fundingTxPromise.wait() returned: the transaction is mined, or it
\* was dropped and wait fails
FundingWaitSettles(r) ==
  /\ pc[r] = "fundingTx.wait"
  /\ \/ UNCHANGED txCount /\ Failed(r)
     \/ Mined(run[r].fundingTx) /\ ConnectLitNodeClient(r, req[r], Done(r))

\* await litNodeClient.connect() returned: the unsigned transaction is begun
LitNodeClientConnectSettles(r) ==
  /\ UNCHANGED txCount
  /\ pc[r] = "litNodeClient.connect"
  /\ \/ Failed(r)
     \/ IF run[r].fn = CombineFn
        THEN Await(r, req[r], Done(r), "getGasPrice", NoCallArgs)
        ELSE IF ~AbiHasFunction(run[r].args.contractABI, run[r].args.functionName,
                                run[r].args.functionParams)
        THEN Throw(r, req[r], Done(r), <<"encodeFunctionData", " failed">>)
        ELSE Await(r, req[r],
                   [Done(r) EXCEPT !.functionData =
                      FunctionData(run[r].args.functionName, run[r].args.functionParams)],
                   "getGasPrice", NoCallArgs)

\* the gas price of the unsigned transaction returned
GasPriceSettles(r) ==
  /\ UNCHANGED txCount
  /\ pc[r] = "getGasPrice"
  /\ \/ Failed(r)
     \/ \E gasPrice \in GasPriceSamples :
          LET rn == [Done(r) EXCEPT !.gasPrice = gasPrice]
              pkp == [NoCallArgs EXCEPT !.address = run[r].pkpInfo.ethAddress]
          IN IF run[r].fn = CombineFn
             THEN Await(r, req[r], rn, "getTransactionCount", pkp)
             ELSE IF ~parseEther(run[r].args.valueInEther).ok
             THEN Throw(r, req[r], rn, <<"parseEther", " failed">>)
             ELSE Await(r, req[r], rn, "estimateGas", pkp)

\* await contract.estimateGas[functionName](...) returned
EstimateGasSettles(r) ==
  /\ UNCHANGED txCount
  /\ pc[r] = "estimateGas"
  /\ \/ Failed(r)
     \/ \E estimatedGas \in GasEstimateSamples :
          Await(r, req[r],
                [DoneWith(r, estimatedGas) EXCEPT !.estimatedGas = estimatedGas],
                "getTransactionCount",
                [NoCallArgs EXCEPT !.address = run[r].pkpInfo.ethAddress])


\* C13 mutant: the estimate is divided before it is multiplied
createContractTransactionDivFirst(args, functionData, gasPrice, estimatedGas, nonce, chainInfo) ==
  LET gasLimit == (estimatedGas \div GasMulDen) * GasMulNum
  IN Tx(args.contractAddress, functionData,
        toHexString(BigNumber(parseEther(args.valueInEther).amount)),
        toHexString(BigNumber(gasLimit)), toHexString(BigNumber(gasPrice)),
        nonce, chainInfo.chainId)

\* createContractTransaction: const unsignedTransaction = {...}
createContractTransaction(args, functionData, gasPrice, estimatedGas, nonce, chainInfo) ==
  LET gasLimit == (estimatedGas * GasMulNum) \div GasMulDen
  IN Tx(args.contractAddress, functionData,
        toHexString(BigNumber(parseEther(args.valueInEther).amount)),
        toHexString(BigNumber(gasLimit)), toHexString(BigNumber(gasPrice)),
        nonce, chainInfo.chainId)

\* signAndCombineAndSendTx: const unsignedTransaction = {...}
CombineUnsignedTransaction(gasPrice, nonce, chainInfo) ==
  Tx(WalletAddress, NoData, Number(Amount(0, CombineTxValue)),
     Number(FundingGasLimit), toHexString(BigNumber(gasPrice)),
     nonce, chainInfo.chainId)


\* C5 mutant: the transaction is hashed before its nonce is filled in
TransactionHashBeforeNonce(tx) ==
  keccak256(serializeTransaction([tx EXCEPT !.nonce = 0]))

\* keccak256(serializeTransaction(unsignedTransaction))
TransactionHash(tx) == keccak256(serializeTransaction(tx))

\* the nonce returned: the transaction is complete and hashed; the capacity
\* credit is minted or taken from the environment
TransactionCountSettles(r) ==
  /\ UNCHANGED txCount
  /\ pc[r] = "getTransactionCount"
  /\ \/ Failed(r)
     \/ \E nonce \in TxCountSamples :
          LET chainInfo == getChainInfo(env.CHAIN_TO_SEND_TX_ON)
              tx == IF run[r].fn = ExecuteFn
                    THEN createContractTransaction(run[r].args, run[r].functionData,
                           run[r].gasPrice, run[r].estimatedGas, nonce, chainInfo)
                    ELSE CombineUnsignedTransaction(run[r].gasPrice, nonce, chainInfo)
              rn == [DoneWith(r, nonce) EXCEPT !.unsignedTransaction = tx,
                                    !.unsignedTransactionHash = TransactionHash(tx),
                                    !.capacityTokenId = env.LIT_CAPACITY_CREDIT_TOKEN_ID]
          IN IF rn.capacityTokenId = ""
             THEN Await(r, req[r], rn, "mintCapacityCreditsNFT", NoCallArgs)
             ELSE Await(r, req[r], rn, "createCapacityDelegationAuthSig",
                        [NoCallArgs EXCEPT !.capacityTokenId = rn.capacityTokenId])

\* await litContracts.mintCapacityCreditsNFT(...) returned mintResult
MintCapacityCreditSettles(r) ==
  /\ UNCHANGED txCount
  /\ pc[r] = "mintCapacityCreditsNFT"
  /\ \/ Failed(r)
     \/ \E id \in MintedCredits :
          Await(r, req[r], [Done(r) EXCEPT !.capacityTokenId = id],
                "createCapacityDelegationAuthSig",
                [NoCallArgs EXCEPT !.capacityTokenId = id])

\* await litNodeClient.createCapacityDelegationAuthSig(...) returned
DelegationSettles(r) ==
  /\ UNCHANGED txCount
  /\ pc[r] = "createCapacityDelegationAuthSig"
  /\ \/ Failed(r)
     \/ Await(r, req[r], Done(r), "getSessionSigs", NoCallArgs)

\* jsParams: { toSign, publicKey, sigName, chain, unsignedTransaction }
JsParams(rn) ==
  [NoCallArgs EXCEPT !.toSign = arrayify(rn.unsignedTransactionHash),
                     !.publicKey = rn.pkpInfo.publicKey,
                     !.tx = rn.unsignedTransaction]

\* await litNodeClient.getSessionSigs(...) returned: executeJs is called
SessionSigsSettles(r) ==
  /\ UNCHANGED txCount
  /\ pc[r] = "getSessionSigs"
  /\ \/ Failed(r)
     \/ Await(r, req[r], Done(r), "executeJs", JsParams(run[r]))

\* await litNodeClient.executeJs(...) returned result
ExecuteJsSettles(r) ==
  /\ UNCHANGED txCount
  /\ pc[r] = "executeJs"
  /\ \/ Failed(r)
     \/ \E result \in ExecuteJsResults : Return(r, req[r], Done(r), result)


\* C10 mutant: the finally block has no catch of its own, and the error of
\* disconnect replaces what the body exited with
DisconnectErrorPropagates(body, ok) ==
  IF ok THEN body ELSE Thrown(<<"litNodeClient.disconnect", " failed">>)

\* what the function settles with after disconnect returned (ok) or threw:
\* the inner catch logs the error of disconnect and drops it
DisconnectOutcome(body, ok) == body

\* finally: await litNodeClient.disconnect() returned or threw
DisconnectSettles(r) ==
  /\ UNCHANGED txCount
  /\ pc[r] = "litNodeClient.disconnect"
  /\ \E ok \in BOOLEAN :
       Settle(r, req[r],
              [run[r] EXCEPT
                 !.log = Append(@, Event(IF ok THEN "done" ELSE "fail", pc[r], NoCallArgs))],
              DisconnectOutcome(run[r].body, ok))

\* The exchange is over: the slot is free for the next request
Close(r) ==
  /\ UNCHANGED txCount
  /\ pc[r] = "done"
  /\ pc' = [pc EXCEPT ![r] = "idle"]
  /\ req' = [req EXCEPT ![r] = NoRequest]
  /\ responses' = [responses EXCEPT ![r] = <<>>]
  /\ upstream' = [upstream EXCEPT ![r] = <<>>]
  /\ run' = [run EXCEPT ![r] = NoRun]
  /\ UNCHANGED env

Next ==
  \E r \in Reqs :
    \/ Serial(r) /\ ExplorerRequest(r)
    \/ Serial(r) /\ HealthRequest(r)
    \/ Serial(r) /\ ExecuteContractRequest(r)
    \/ Serial(r) /\ TestContractRequest(r)
    \/ Serial(r) /\ CombineCall(r)
    \/ AxiosSettles(r)
    \/ LitContractsConnectSettles(r)
    \/ MintSettles(r)
    \/ GetBalanceSettles(r)
    \/ FundingGasPriceSettles(r)
    \/ FundingNonceSettles(r)
    \/ SendTransactionSettles(r)
    \/ FundingWaitSettles(r)
    \/ LitNodeClientConnectSettles(r)
    \/ GasPriceSettles(r)
    \/ EstimateGasSettles(r)
    \/ TransactionCountSettles(r)
    \/ MintCapacityCreditSettles(r)
    \/ DelegationSettles(r)
    \/ SessionSigsSettles(r)
    \/ ExecuteJsSettles(r)
    \/ DisconnectSettles(r)
    \/ Close(r)

Spec == Init /\ [][Next]_vars

\* an external call awaited for request r returns or fails
ExternalCallSettles(r) ==
  \/ AxiosSettles(r)
  \/ LitContractsConnectSettles(r)
  \/ MintSettles(r)
  \/ GetBalanceSettles(r)
  \/ FundingGasPriceSettles(r)
  \/ FundingNonceSettles(r)
  \/ SendTransactionSettles(r)
  \/ FundingWaitSettles(r)
  \/ LitNodeClientConnectSettles(r)
  \/ GasPriceSettles(r)
  \/ EstimateGasSettles(r)
  \/ TransactionCountSettles(r)
  \/ MintCapacityCreditSettles(r)
  \/ DelegationSettles(r)
  \/ SessionSigsSettles(r)
  \/ ExecuteJsSettles(r)
  \/ DisconnectSettles(r)

\* the environments the progress of requests is checked in: everything
\* configured, or one thing missing (the private key, the Mantle
\* explorer's key, or the PKP and the capacity credit, which are then minted)
LiveEnvChoices ==
  {e \in EnvChoices :
     /\ e.BASE_SEPOLIA_EXPLORER_API_KEY # ""
     /\ e.CHAIN_TO_SEND_TX_ON = "mantle"
     /\ e.LIT_PKP_PUBLIC_KEY # HardcodedKey
     /\ e.LIT_PKP_PUBLIC_KEY = NoKey <=> e.LIT_CAPACITY_CREDIT_TOKEN_ID = ""
     /\ Cardinality({v \in {"ETHEREUM_PRIVATE_KEY", "MANTLE_EXPLORER_API_KEY",
                             "LIT_CAPACITY_CREDIT_TOKEN_ID"} : e[v] = ""}) <= 1}

LiveInit == Init /\ env \in LiveEnvChoices

\* The service when every external call eventually returns or fails: the
\* continuation of an await runs once its promise has settled
LiveSpec ==
  LiveInit /\ [][Next]_vars /\ \A r \in Reqs : WF_vars(ExternalCallSettles(r))


\* the environment of two requests for the same managed key: everything is
\* configured, the PKP and the capacity credit included
OverlapEnvChoices ==
  {e \in EnvChoices :
     /\ e.ETHEREUM_PRIVATE_KEY # ""
     /\ e.CHAIN_TO_SEND_TX_ON = "mantle"
     /\ e.LIT_PKP_PUBLIC_KEY = Key("configured", 0)
     /\ e.LIT_CAPACITY_CREDIT_TOKEN_ID # ""
     /\ e.MANTLE_EXPLORER_API_KEY # ""
     /\ e.BASE_SEPOLIA_EXPLORER_API_KEY # ""}

OverlapInit == Init /\ env \in OverlapEnvChoices

\* a client posts the store call of the test contract to /execute-contract
StoreRequest(r) == ExecuteContractRequest(r) /\ req'[r].body = GoodBody

\* the answers of the world the overlapping requests are tried with: a PKP
\* balance of nothing or of one ether, a gas estimate of 21001, a PKP
\* transaction count of 0 or 1, and no failure but of sending the funding
\* transaction, of waiting for it, and of disconnecting
NarrowWorld ==
  \A r \in Reqs :
    /\ run[r].bal \in {ZeroAmount, Amount(1, 0)}
    /\ run[r].unsignedTransaction # NoTx =>
         /\ run[r].estimatedGas = 21001
         /\ run[r].unsignedTransaction.nonce <= 1
    /\ run[r].body.kind = "throw" =>
         run[r].body.message \in {<<"sendTransaction", " failed">>,
                                  <<"fundingTx.wait", " failed">>}

\* Node takes a request, or runs the continuation of a settled await, while
\* other requests are awaiting theirs
OverlapNext ==
  \E r \in Reqs :
    \/ StoreRequest(r)
    \/ TestContractRequest(r)
    \/ LitContractsConnectSettles(r) /\ NarrowWorld'
    \/ GetBalanceSettles(r) /\ NarrowWorld'
    \/ FundingGasPriceSettles(r) /\ NarrowWorld'
    \/ FundingNonceSettles(r) /\ NarrowWorld'
    \/ SendTransactionSettles(r) /\ NarrowWorld'
    \/ FundingWaitSettles(r) /\ NarrowWorld'
    \/ LitNodeClientConnectSettles(r) /\ NarrowWorld'
    \/ GasPriceSettles(r) /\ NarrowWorld'
    \/ EstimateGasSettles(r) /\ NarrowWorld'
    \/ TransactionCountSettles(r) /\ NarrowWorld'
    \/ DelegationSettles(r) /\ NarrowWorld'
    \/ SessionSigsSettles(r) /\ NarrowWorld'
    \/ ExecuteJsSettles(r) /\ NarrowWorld'
    \/ DisconnectSettles(r) /\ NarrowWorld'
    \/ Close(r)

\* The orchestration endpoints under requests whose lifetimes overlap
OverlapSpec == OverlapInit /\ [][OverlapNext]_vars


\* ============================================================ properties
\* the external calls a run issued, in the order it issued them
CallOps(log) ==
  LET calls == SelectSeq(log, LAMBDA e : e.ev = "call")
  IN [i \in 1..Len(calls) |-> calls[i].op]

\* how often a run issued the external call op
CallCount(log, op) == Len(SelectSeq(log, LAMBDA e : e.ev = "call" /\ e.op = op))

\* every call is issued only when the call before it has returned (after a
\* call that failed only the disconnect of the finally block is issued),
\* and what returns or fails is the call issued last
OneAtATime(log) ==
  \A i \in 1..Len(log) :
    IF log[i].ev = "call"
    THEN \/ i = 1
         \/ log[i - 1].ev = "done"
         \/ log[i - 1].ev = "fail" /\ log[i].op = "litNodeClient.disconnect"
    ELSE i > 1 /\ log[i - 1].ev = "call" /\ log[i - 1].op = log[i].op

\* the steps of the orchestration in their order, with the conditional
\* ones taken or not
StepOrder(minted, funded, credited) ==
  <<"litContracts.connect">>
  \o (IF minted THEN <<"pkpNftContractUtils.write.mint">> ELSE <<>>)
  \o <<"getBalance">>
  \o (IF funded
      THEN <<"fundingTx.getGasPrice", "fundingTx.getTransactionCount",
             "sendTransaction", "fundingTx.wait">>
      ELSE <<>>)
  \o <<"litNodeClient.connect", "getGasPrice", "estimateGas", "getTransactionCount">>
  \o (IF credited THEN <<"mintCapacityCreditsNFT">> ELSE <<>>)
  \o <<"createCapacityDelegationAuthSig", "getSessionSigs", "executeJs",
       "litNodeClient.disconnect">>

\* C1: every run of signAndExecuteContractTx whose body returned a result
\* issued its external calls in the one fixed order (connect LitContracts,
\* mint or derive the key, read the balance, fund and wait for the receipt,
\* connect the LitNodeClient, gas price, gas estimate, nonce, capacity
\* credit, delegation signature, session signatures, executeJs, and the
\* disconnect of the finally block), only the mint, the funding and the
\* credit mint being left out or not; each call was issued only after the
\* one before it had returned; and a run whose environment is rejected
\* issues no call at all.
C1_LinearOrder ==
  \A r \in Reqs :
    run[r].fn = ExecuteFn =>
      /\ OneAtATime(run[r].log)
      /\ validateEnvironment(env).threw => run[r].log = <<>>
      /\ run[r].body.kind = "return" =>
           \E minted, funded, credited \in BOOLEAN :
             CallOps(run[r].log) = StepOrder(minted, funded, credited)

\* C1 witness: a run of signAndExecuteContractTx has returned its result
\* after minting a key, funding it and minting a capacity credit.
C1_Witness ==
  \E r \in Reqs :
    /\ run[r].fn = ExecuteFn
    /\ run[r].outcome.kind = "return"
    /\ CallOps(run[r].log) = StepOrder(TRUE, TRUE, TRUE)


\* request r was answered with status 200
AnsweredOk(r) == responses[r] # <<>> /\ responses[r][1].status = 200

\* the handling of request r sent a request to an explorer API
Forwarded(r) == upstream[r] # <<>>

\* the handling of request r invoked an orchestration function
Orchestrated(r) == run[r].fn # ""

\* the routes that answer from the process itself
StatusRoutes == {"GET /", "GET /health"}

\* C2 (as stated): every endpoint is a proxy or runs the orchestration, so
\* no request is answered with status 200 unless its handling forwarded a
\* request to an explorer API or invoked the orchestration.
C2_EveryEndpointForwardsOrOrchestrates ==
  \A r \in Reqs : AnsweredOk(r) => Forwarded(r) \/ Orchestrated(r)

\* C2 (amended): every endpoint other than GET / and GET /health answers
\* with status 200 only after forwarding to an explorer API or invoking the
\* orchestration; GET / and GET /health answer with status 200 and do
\* neither.
C2_EndpointsOtherThanStatus ==
  \A r \in Reqs :
    /\ AnsweredOk(r) /\ req[r].route \notin StatusRoutes
         => Forwarded(r) \/ Orchestrated(r)
    /\ req[r].route \in StatusRoutes
         => AnsweredOk(r) /\ ~Forwarded(r) /\ ~Orchestrated(r)

\* C2 witness: GET /health has been answered with status 200, nothing was
\* forwarded and no orchestration ran.
C2_Witness ==
  \E r \in Reqs :
    /\ req[r].route = "GET /health"
    /\ AnsweredOk(r)
    /\ ~Forwarded(r) /\ ~Orchestrated(r)


\* the resource groups for which a router registers at least one route
ExposedGroups(router) == {RouteGroup(route) : route \in RouterRoutes(router)}

\* request r went to an explorer router and no route of it matched
Unrouted(r) ==
  /\ req[r].router \in ExplorerRouters
  /\ responses[r] = <<NotFound>>
  /\ ~Forwarded(r)

\* C3 (as stated): each of the two explorer routers registers proxy routes
\* for all five resource groups (balances, transactions, tokens, contracts
\* and blocks): whichever router a request reaches has a route of every
\* group.
C3_BothExposeAllGroups ==
  \A r \in Reqs :
    req[r].router \in ExplorerRouters =>
      \A group \in ResourceGroups :
        \E route \in RouterRoutes(req[r].router) : RouteGroup(route) = group

\* C3 (amended): the Base Sepolia router registers routes for all five
\* resource groups; the Mantle router registers routes for balances,
\* transactions and tokens only. A request to an explorer router is
\* answered 404 with nothing forwarded exactly when the router registers
\* no such route, as is every request to the Mantle router for a contract
\* or block route.
C3_GroupsExposed ==
  /\ ExposedGroups("baseSepolia") = ResourceGroups
  /\ ExposedGroups("mantle") = {"balances", "transactions", "tokens"}
  /\ \A r \in Reqs :
       req[r].router \in ExplorerRouters =>
         /\ Unrouted(r) <=> req[r].route \notin RouterRoutes(req[r].router)
         /\ req[r].router = "mantle"
            /\ RouteGroup(req[r].route) \in {"contracts", "blocks"}
              => Unrouted(r)

\* C3 witness: a request for a contract route of the Mantle explorer has
\* been answered 404 and nothing was forwarded.
C3_Witness ==
  \E r \in Reqs :
    /\ req[r].router = "mantle"
    /\ RouteGroup(req[r].route) = "contracts"
    /\ Unrouted(r)


\* the calls of op a run issued
Calls(log, op) == {i \in 1..Len(log) : log[i].ev = "call" /\ log[i].op = op}

\* C4 (as stated): whenever an orchestration run sends a funding
\* transaction, its recipient is the address of the PKP whose balance the
\* run has just read, the PKP whose public key the run passes to executeJs.
C4_FundingRecipientIsPkp ==
  \A r \in Reqs :
    \A i \in Calls(run[r].log, "sendTransaction") :
      /\ run[r].log[i].args.tx.to = run[r].pkpInfo.ethAddress
      /\ \A j \in Calls(run[r].log, "getBalance") :
           run[r].log[i].args.tx.to = run[r].log[j].args.address
      /\ \A j \in Calls(run[r].log, "executeJs") :
           run[r].log[i].args.tx.to = computeAddress(run[r].log[j].args.publicKey)


\* C5: in every run that calls executeJs, toSign is arrayify of the
\* keccak256 hash of the serialization of exactly the transaction passed
\* as unsignedTransaction in the same call, which is the transaction the
\* run built and hashed; and the run's gas estimate and nonce were asked
\* for the address of the key whose publicKey is passed.
C5_SignsWhatItSubmits ==
  \A r \in Reqs :
    \A i \in Calls(run[r].log, "executeJs") :
      LET args == run[r].log[i].args
      IN /\ args.toSign = arrayify(keccak256(serializeTransaction(args.tx)))
         /\ args.tx = run[r].unsignedTransaction
         /\ args.tx # NoTx
         /\ args.publicKey = run[r].pkpInfo.publicKey
         /\ \A j \in Calls(run[r].log, "estimateGas")
                     \cup Calls(run[r].log, "getTransactionCount") :
              /\ j < i
              /\ run[r].log[j].args.address = computeAddress(args.publicKey)
         /\ Calls(run[r].log, "getTransactionCount") # {}
         /\ run[r].fn = ExecuteFn => Calls(run[r].log, "estimateGas") # {}

\* C5 witness: a run of signAndExecuteContractTx with a minted key has
\* called executeJs for a transaction whose nonce is not 0.
C5_Witness ==
  \E r \in Reqs :
    /\ run[r].fn = ExecuteFn
    /\ run[r].pkpInfo.publicKey \in MintedKeys
    /\ run[r].unsignedTransaction.nonce > 0
    /\ Calls(run[r].log, "executeJs") # {}


\* a body's field is absent, or present with a value JavaScript takes
\* for false (null, "", 0, false)
Lacks(v) == ~Truthy(v)

\* the body fails one of the four checks of POST /execute-contract
FailsContractChecks(body) ==
  \/ Lacks(body.contractAddress) \/ Lacks(body.contractABI)
  \/ Lacks(body.functionName) \/ Lacks(body.functionParams)
  \/ ~Matches0xHex(body.contractAddress, AddressHexLen)
  \/ ~IsArray(body.contractABI)
  \/ ~IsArray(body.functionParams)

\* C6: a POST /execute-contract whose body lacks contractAddress,
\* contractABI, functionName or functionParams, or whose contractAddress
\* does not read as 0x and exactly 40 hex digits, or whose contractABI or
\* functionParams is not an array, is answered once, with status 400 and
\* success false, and signAndExecuteContractTx is not invoked for it; for
\* every other body signAndExecuteContractTx is invoked with the body's
\* fields.
C6_ContractInputValidated ==
  \A r \in Reqs :
    req[r].route = "POST /execute-contract" =>
      IF FailsContractChecks(req[r].body)
      THEN /\ Len(responses[r]) = 1
           /\ responses[r][1].status = 400
           /\ responses[r][1].success = Bool(FALSE)
           /\ ~Orchestrated(r)
      ELSE /\ run[r].fn = ExecuteFn
           /\ run[r].args.contractAddress = req[r].body.contractAddress
           /\ run[r].args.contractABI = req[r].body.contractABI
           /\ run[r].args.functionName = req[r].body.functionName
           /\ run[r].args.functionParams = req[r].body.functionParams

\* C6 witness: a body that is complete but for functionParams being a text
\* has been answered with status 400 and no orchestration ran.
C6_Witness ==
  \E r \in Reqs :
    /\ req[r].route = "POST /execute-contract"
    /\ req[r].body = [GoodBody EXCEPT !.functionParams = Text("56")]
    /\ responses[r] # <<>> /\ responses[r][1].status = 400
    /\ ~Orchestrated(r)


\* v is a string that spells 0x and exactly n hex digits
IsHexString(v, n) ==
  /\ v.t = "string"
  /\ Len(v.s) = n + 2
  /\ SubSeq(v.s, 1, 2) = <<"0", "x">>
  /\ \A i \in 3..Len(v.s) : v.s[i] \in HexDigits

\* the guard of request r's route has to turn the request away
Malformed(r) ==
  \/ /\ RouteGuard(req[r].route) = "validateAddress"
     /\ ~IsHexString(req[r].params.address, AddressHexLen)
  \/ /\ RouteGuard(req[r].route) = "validateTxHash"
     /\ ~IsHexString(req[r].params.txhash, TxHashHexLen)

\* C7: on every explorer route guarded by validateAddress (validateTxHash)
\* a request whose :address (:txhash) parameter is not 0x and exactly 40
\* (64) hex digits is answered once, with status 400, and no request is
\* sent to the explorer API.
C7_MalformedParameterRejected ==
  \A r \in Reqs :
    /\ req[r].router \in ExplorerRouters
    /\ req[r].route \in RouterRoutes(req[r].router)
    /\ Malformed(r)
    => /\ Len(responses[r]) = 1
       /\ responses[r][1].status = 400
       /\ ~Forwarded(r)

\* C7 witness: a request for the balance of an address of 41 hex digits
\* has been answered with status 400 and nothing was forwarded.
C7_Witness ==
  \E r \in Reqs :
    /\ req[r].router \in ExplorerRouters
    /\ req[r].route = "GET /balance/:address"
    /\ req[r].params.address = LongAddress
    /\ responses[r] # <<>> /\ responses[r][1].status = 400
    /\ ~Forwarded(r)


\* request r is for a registered explorer route, it passed the route's
\* validation, and its handling is over
ProxyHandled(r) ==
  /\ req[r].router \in ExplorerRouters
  /\ req[r].route \in RouterRoutes(req[r].router)
  /\ ~Malformed(r)
  /\ req[r].route = "POST /balances" =>
       /\ IsArray(req[r].body.addresses)
       /\ Len(req[r].body.addresses.a) \in 1..MaxAddresses
  /\ pc[r] = "done"

\* the one upstream reply of request r
Reply(r) == upstream[r][1].reply

\* request r was answered once, with status 500, success false and an
\* error message
AnsweredError(r) ==
  /\ Len(responses[r]) = 1
  /\ responses[r][1].status = 500
  /\ responses[r][1].success = Bool(FALSE)
  /\ responses[r][1].error # <<>>

\* C8 (as stated): a validated explorer request is answered 200 with
\* success true and data equal to the upstream result field exactly when
\* the upstream call succeeded and the status of its body is not the
\* string '0'; in every other case it is answered 500 with success false
\* and an error message.
C8_SuccessIffUpstreamOk ==
  \A r \in Reqs :
    ProxyHandled(r) =>
      IF /\ Forwarded(r)
         /\ ~Reply(r).failed
         /\ Reply(r).body.status # Str(<<"0">>)
      THEN responses[r] = <<Success(Reply(r).body.result)>>
      ELSE AnsweredError(r)

\* C8 (amended): a validated explorer request is answered 200 with success
\* true and data equal to the upstream result field exactly when the
\* upstream call succeeded with a body that is not null and whose status
\* is not the string '0'; in every other case (API key not configured,
\* transport failure, null body, status '0') it is answered 500 with
\* success false and an error message.
C8_SuccessIffUpstreamBodyOk ==
  \A r \in Reqs :
    ProxyHandled(r) =>
      IF /\ Forwarded(r)
         /\ ~Reply(r).failed
         /\ Reply(r).body.kind # "null"
         /\ Reply(r).body.status # Str(<<"0">>)
      THEN responses[r] = <<Success(Reply(r).body.result)>>
      ELSE AnsweredError(r)

\* C8 witness: the explorer API answered a validated request with the body
\* null, and the request was answered with status 500.
C8_Witness ==
  \E r \in Reqs :
    /\ ProxyHandled(r)
    /\ Forwarded(r)
    /\ ~Reply(r).failed
    /\ Reply(r).body.kind = "null"
    /\ AnsweredError(r)


\* the run has created its LitNodeClient: it calls connect on it at once
ClientCreated(log) == CallCount(log, "litNodeClient.connect") > 0

\* the run has left its try block, by return or by throw
BodyExited(rn) == rn.body.kind # "none"

\* C9: in signAndExecuteContractTx, disconnect is called at most once and
\* only when the body has exited with the LitNodeClient created; once the
\* body has exited, by return, by a failure of connect or of any later
\* step, disconnect has been called exactly once if the client had been
\* created, and never if the body failed before that.
C9_DisconnectOnceIffCreated ==
  \A r \in Reqs :
    run[r].fn = ExecuteFn =>
      LET n == CallCount(run[r].log, "litNodeClient.disconnect")
      IN /\ n <= 1
         /\ n = 1 => ClientCreated(run[r].log) /\ BodyExited(run[r])
         /\ BodyExited(run[r]) =>
              n = (IF ClientCreated(run[r].log) THEN 1 ELSE 0)

\* C9 witness: a run of signAndExecuteContractTx whose connect of the
\* LitNodeClient failed has settled after one call of disconnect.
C9_Witness ==
  \E r \in Reqs :
    /\ run[r].fn = ExecuteFn
    /\ run[r].outcome = Thrown(<<"litNodeClient.connect", " failed">>)
    /\ CallCount(run[r].log, "litNodeClient.disconnect") = 1

\* the last event of the run is the failure of disconnect
DisconnectFailed(log) ==
  /\ log # <<>>
  /\ log[Len(log)] = Event("fail", "litNodeClient.disconnect", NoCallArgs)

\* C10: when disconnect fails in the finally block, the function settles
\* with what its body exited with (the result if the body returned, the
\* original error if it threw) and the caller answers accordingly.
C10_DisconnectFailureSwallowed ==
  \A r \in Reqs :
    run[r].fn \in {ExecuteFn, CombineFn} /\ DisconnectFailed(run[r].log) =>
      /\ BodyExited(run[r])
      /\ run[r].outcome = run[r].body
      /\ responses[r] = CallerResponses(req[r], run[r].body)

\* C10 witness: disconnect failed after executeJs had returned a result,
\* and the caller of signAndExecuteContractTx answered with status 200.
C10_Witness ==
  \E r \in Reqs :
    /\ run[r].fn = ExecuteFn
    /\ DisconnectFailed(run[r].log)
    /\ run[r].outcome = Returned(Obj(<<"signedTransaction">>))
    /\ responses[r] # <<>> /\ responses[r][1].status = 200


\* the awaited call op of the run has returned
CallReturned(log, op) == \E i \in 1..Len(log) : log[i].ev = "done" /\ log[i].op = op

\* C11: in a run of signAndExecuteContractTx a PKP is minted, at most
\* once, exactly when no LIT_PKP_PUBLIC_KEY is configured (and the run got
\* past the connect of LitContracts), and a capacity credit is minted, at
\* most once, exactly when no LIT_CAPACITY_CREDIT_TOKEN_ID is configured
\* (and the run got past the nonce); a configured PKP is the one whose
\* address the balance check, the gas estimate and the nonce are asked
\* for and whose public key is passed to executeJs, and a configured
\* credit is the one the capacity delegation is created for.
C11_MintIffNotConfigured ==
  \A r \in Reqs :
    run[r].fn = ExecuteFn =>
      LET log == run[r].log
          pkpMints == CallCount(log, "pkpNftContractUtils.write.mint")
          creditMints == CallCount(log, "mintCapacityCreditsNFT")
      IN /\ pkpMints <= 1 /\ creditMints <= 1
         /\ CallReturned(log, "litContracts.connect") =>
              (pkpMints = 1 <=> env.LIT_PKP_PUBLIC_KEY = NoKey)
         /\ ~CallReturned(log, "litContracts.connect") => pkpMints = 0
         /\ CallReturned(log, "getTransactionCount") =>
              (creditMints = 1 <=> env.LIT_CAPACITY_CREDIT_TOKEN_ID = "")
         /\ ~CallReturned(log, "getTransactionCount") => creditMints = 0
         /\ env.LIT_PKP_PUBLIC_KEY # NoKey =>
              /\ \A i \in Calls(log, "getBalance") \cup Calls(log, "estimateGas")
                          \cup Calls(log, "getTransactionCount") :
                   log[i].args.address = computeAddress(env.LIT_PKP_PUBLIC_KEY)
              /\ \A i \in Calls(log, "executeJs") :
                   log[i].args.publicKey = env.LIT_PKP_PUBLIC_KEY
         /\ env.LIT_CAPACITY_CREDIT_TOKEN_ID # "" =>
              \A i \in Calls(log, "createCapacityDelegationAuthSig") :
                log[i].args.capacityTokenId = env.LIT_CAPACITY_CREDIT_TOKEN_ID

\* C11 witness: a run with a configured PKP and no configured capacity
\* credit has called executeJs after minting a credit and no PKP.
C11_Witness ==
  \E r \in Reqs :
    /\ run[r].fn = ExecuteFn
    /\ env.LIT_PKP_PUBLIC_KEY # NoKey
    /\ env.LIT_CAPACITY_CREDIT_TOKEN_ID = ""
    /\ CallCount(run[r].log, "pkpNftContractUtils.write.mint") = 0
    /\ CallCount(run[r].log, "mintCapacityCreditsNFT") = 1
    /\ Calls(run[r].log, "executeJs") # {}


\* what the awaited calls of op returned, in the run's log
Results(log, op) ==
  {log[i].args.result : i \in {j \in 1..Len(log) : log[j].ev = "done" /\ log[j].op = op}}

\* the calls with which the run builds and sends its funding transaction
FundingOps ==
  {"fundingTx.getGasPrice", "fundingTx.getTransactionCount", "sendTransaction",
   "fundingTx.wait"}

\* the balance is strictly less than 25000 wei
BelowThreshold(bal) == bal.milli = 0 /\ bal.wei < 25000

\* C12: in signAndExecuteContractTx a funding transaction is sent, at most
\* once, only when the balance read for the PKP's address is strictly
\* less than 25000 wei, and then it is sent and its receipt awaited before
\* the LitNodeClient is connected; at 25000 wei or more no call of the
\* funding block is made. The transaction sent transfers 0.001 ether (one
\* thousandth of 10^18 wei) with gas limit 21000, and its nonce is what
\* getTransactionCount returned for the address of the funding wallet.
C12_FundsIffBelowThreshold ==
  \A r \in Reqs :
    run[r].fn = ExecuteFn =>
      LET log == run[r].log
          sent == Calls(log, "sendTransaction")
      IN /\ Cardinality(sent) <= 1
         /\ sent # {} =>
              CallReturned(log, "getBalance") /\ BelowThreshold(run[r].bal)
         /\ CallReturned(log, "getBalance") /\ ~BelowThreshold(run[r].bal) =>
              \A op \in FundingOps : CallCount(log, op) = 0
         /\ CallReturned(log, "getBalance") /\ BelowThreshold(run[r].bal) =>
              /\ CallCount(log, "fundingTx.getGasPrice") = 1
              /\ ClientCreated(log) =>
                   sent # {} /\ CallReturned(log, "fundingTx.wait")
         /\ \A i \in sent :
              /\ log[i].args.tx.value.n = Amount(1, 0)
              /\ log[i].args.tx.gasLimit.n = 21000
              /\ \A j \in Calls(log, "fundingTx.getTransactionCount") :
                   log[j].args.address = WalletAddress
              /\ Results(log, "fundingTx.getTransactionCount") = {log[i].args.tx.nonce}

\* C12 witness: a run that read a balance of 24999 wei has sent its
\* funding transaction with a nonce that is not 0.
C12_Witness ==
  \E r \in Reqs :
    /\ run[r].fn = ExecuteFn
    /\ run[r].bal = Amount(0, 24999)
    /\ \E i \in Calls(run[r].log, "sendTransaction") :
         run[r].log[i].args.tx.nonce > 0


\* C13: the unsigned transaction createContractTransaction builds has the
\* gas limit floor(estimatedGas * 12 / 10), as a hex string, where
\* estimatedGas is what estimateGas returned: at least the estimate and at
\* most 1.2 times the estimate; its nonce is what getTransactionCount
\* returned for the PKP's address, and its chainId is that of the chain
\* CHAIN_TO_SEND_TX_ON names.
C13_GasLimitNonceChain ==
  \A r \in Reqs :
    run[r].fn = ExecuteFn /\ run[r].unsignedTransaction # NoTx =>
      LET log == run[r].log
          tx == run[r].unsignedTransaction
      IN /\ \E estimate \in Results(log, "estimateGas") :
              /\ Results(log, "estimateGas") = {estimate}
              /\ 10 * tx.gasLimit.n <= 12 * estimate
              /\ 10 * (tx.gasLimit.n + 1) > 12 * estimate
              /\ tx.gasLimit.n >= estimate
         /\ tx.gasLimit.form = "hex"
         /\ Results(log, "getTransactionCount") = {tx.nonce}
         /\ \A i \in Calls(log, "getTransactionCount") :
              log[i].args.address = run[r].pkpInfo.ethAddress
         /\ tx.chainId = getChainInfo(env.CHAIN_TO_SEND_TX_ON).chainId

\* C13 witness: a transaction has been built from an estimate of 21001,
\* for which 12/10 of the estimate is no whole number, and a nonce that is
\* not 0.
C13_Witness ==
  \E r \in Reqs :
    /\ run[r].fn = ExecuteFn
    /\ Results(run[r].log, "estimateGas") = {21001}
    /\ run[r].unsignedTransaction.gasLimit.n = 25201
    /\ run[r].unsignedTransaction.nonce > 0


\* the variables validateEnvironment requires
RequiredEnvironment == {"ETHEREUM_PRIVATE_KEY", "CHAIN_TO_SEND_TX_ON"}

\* the text chunks of a message
Chunks(message) == {message[i] : i \in 1..Len(message)}

\* C14: when ETHEREUM_PRIVATE_KEY or CHAIN_TO_SEND_TX_ON is missing, or
\* the configured chain has no chain information, a run of
\* signAndExecuteContractTx throws without having issued any external
\* call; when variables are missing the error's message names each of
\* them; and POST /execute-contract answers the request once, with status
\* 500, success false and the error's message.
C14_BadEnvironmentThrowsFirst ==
  \A r \in Reqs :
    /\ run[r].fn = ExecuteFn
    /\ \/ \E name \in RequiredEnvironment : env[name] = ""
       \/ ~getChainInfo(env.CHAIN_TO_SEND_TX_ON).found
    => /\ run[r].log = <<>>
       /\ run[r].outcome.kind = "throw"
       /\ \A name \in RequiredEnvironment :
            env[name] = "" => name \in Chunks(run[r].outcome.message)
       /\ req[r].route = "POST /execute-contract" =>
            /\ Len(responses[r]) = 1
            /\ responses[r][1].status = 500
            /\ responses[r][1].success = Bool(FALSE)
            /\ responses[r][1].error = run[r].outcome.message
            /\ responses[r][1].error # <<>>

\* C14 witness: with both variables missing a POST /execute-contract that
\* passed validation has been answered with status 500.
C14_Witness ==
  \E r \in Reqs :
    /\ env.ETHEREUM_PRIVATE_KEY = "" /\ env.CHAIN_TO_SEND_TX_ON = ""
    /\ req[r].route = "POST /execute-contract"
    /\ run[r].fn = ExecuteFn
    /\ responses[r] # <<>> /\ responses[r][1].status = 500


\* C15: every request sent to an explorer API carries the parameter apikey
\* with the key configured for that explorer, whatever the client put in
\* the path, the query (an apikey of its own included) or the body; and
\* nothing is sent when no key is configured.
C15_ApiKeyIsTheConfiguredKey ==
  \A r \in Reqs :
    \A i \in 1..Len(upstream[r]) :
      LET key == IF req[r].router = "mantle" THEN env.MANTLE_EXPLORER_API_KEY
                 ELSE env.BASE_SEPOLIA_EXPLORER_API_KEY
      IN /\ key # ""
         /\ "apikey" \in DOMAIN upstream[r][i].params
         /\ upstream[r][i].params.apikey = Str(<<key>>)

\* C15 witness: a request whose query held an apikey of the client's has
\* been forwarded with the configured key.
C15_Witness ==
  \E r \in Reqs :
    /\ req[r].router = "mantle"
    /\ req[r].query.apikey = Str(<<"client-key">>)
    /\ Forwarded(r)
    /\ upstream[r][1].params.apikey = Str(<<"mantle-key">>)


RECURSIVE OffsetOf(_, _)
\* where the i-th of the texts a starts in their comma-separated list
OffsetOf(a, i) ==
  IF i = 1 THEN 0 ELSE OffsetOf(a, i - 1) + Len(a[i - 1].s) + 1

\* text is the texts of a in order, one comma between neighbours
CommaSeparated(text, a) ==
  /\ Len(text) = OffsetOf(a, Len(a)) + Len(a[Len(a)].s)
  /\ \A i \in 1..Len(a) :
       /\ SubSeq(text, OffsetOf(a, i) + 1, OffsetOf(a, i) + Len(a[i].s)) = a[i].s
       /\ i > 1 => text[OffsetOf(a, i)] = ","

\* C16: where the explorer's key is configured, POST /balances sends the
\* balancemulti request exactly when addresses is an array of 1 to
\* MaxAddresses elements, with the elements joined by commas in their
\* order; any other addresses is answered 400 and nothing is sent.
C16_BalancesForwardedIffOneToTwenty ==
  \A r \in Reqs :
    (/\ req[r].router \in ExplorerRouters
     /\ req[r].route = "POST /balances"
     /\ pc[r] # "idle"
     /\ ApiKey(req[r].router, env) # "") =>
      LET addresses == req[r].body.addresses
          inRange == /\ addresses.t = "array"
                     /\ Len(addresses.a) >= 1
                     /\ Len(addresses.a) <= 20
      IN /\ Forwarded(r) <=> inRange
         /\ Forwarded(r) =>
              /\ Len(upstream[r]) = 1
              /\ upstream[r][1].params.module = Str(<<"account">>)
              /\ upstream[r][1].params.action = Str(<<"balancemulti">>)
              /\ upstream[r][1].params.address.t = "string"
              /\ CommaSeparated(upstream[r][1].params.address.s, addresses.a)
         /\ ~inRange =>
              /\ Len(responses[r]) = 1
              /\ responses[r][1].status = 400
              /\ responses[r][1].success = Bool(FALSE)

\* C16 witness: a list of exactly 20 addresses was sent as balancemulti.
C16_Witness ==
  \E r \in Reqs :
    /\ req[r].route = "POST /balances"
    /\ req[r].body.addresses.t = "array"
    /\ Len(req[r].body.addresses.a) = 20
    /\ req[r].body.addresses.a[1] # req[r].body.addresses.a[2]
    /\ Forwarded(r)
    /\ upstream[r][1].params.action = Str(<<"balancemulti">>)


\* the routes that list transactions or transfers of an address
ListRoutes ==
  {"GET /transactions/:address", "GET /internal-transactions/:address",
   "GET /token-transfers/:address", "GET /nft-transfers/:address"}

\* the client gave v and v is not the empty string
Supplied(v) == v.t = "string" /\ v.s # <<>>

\* sent is the client's value v if it gave one, else the text default
ValueOrDefault(sent, v, default) ==
  IF Supplied(v) THEN sent = v ELSE sent = Str(<<default>>)

\* C17: on the four list routes of either router the parameters
\* startblock, endblock, page, offset and sort sent upstream are the
\* client's non-empty query values, else '0', 'latest', '1', '10' and
\* 'desc'; contractaddress is sent only when the client supplied it.
C17_ListParametersDefaulted ==
  \A r \in Reqs :
    (/\ req[r].router \in ExplorerRouters
     /\ req[r].route \in ListRoutes
     /\ Forwarded(r)) =>
      LET sent == upstream[r][1].params
          q == req[r].query
      IN /\ ValueOrDefault(sent.startblock, q.startblock, "0")
         /\ ValueOrDefault(sent.endblock, q.endblock, "latest")
         /\ ValueOrDefault(sent.page, q.page, "1")
         /\ ValueOrDefault(sent.offset, q.offset, "10")
         /\ ValueOrDefault(sent.sort, q.sort, "desc")
         /\ "contractaddress" \in DOMAIN sent =>
              /\ Supplied(q.contractaddress)
              /\ sent.contractaddress = q.contractaddress

\* C17 witness: a token-transfers request with every query value given has
\* been sent with those values and its contractaddress, and the page was
\* not the default.
C17_Witness ==
  \E r \in Reqs :
    /\ req[r].route = "GET /token-transfers/:address"
    /\ Forwarded(r)
    /\ Supplied(req[r].query.page)
    /\ upstream[r][1].params.page = req[r].query.page
    /\ upstream[r][1].params.page # Str(<<"1">>)
    /\ "contractaddress" \in DOMAIN upstream[r][1].params


\* C18 (as stated): a GET /token/supply/:contractaddress request whose
\* contractaddress is 0x and 40 hex digits passes validation and is sent
\* upstream with module 'stats', action 'tokensupply' and that
\* contractaddress.
C18_TokenSupplyForwarded ==
  \A r \in Reqs :
    (/\ req[r].router \in ExplorerRouters
     /\ req[r].route = "GET /token/supply/:contractaddress"
     /\ IsHexString(req[r].params.contractaddress, 40)
     /\ ApiKey(req[r].router, env) # ""
     /\ pc[r] = "done") =>
      /\ Forwarded(r)
      /\ upstream[r][1].params.module = Str(<<"stats">>)
      /\ upstream[r][1].params.action = Str(<<"tokensupply">>)
      /\ upstream[r][1].params.contractaddress = req[r].params.contractaddress


\* C19 (as stated): every address value sent upstream (the address
\* parameter, a contractaddress from the path or the query, each element
\* of the addresses of POST /balances) is 0x and 40 hex digits: a request
\* with a malformed one is rejected before anything is sent.
C19_ForwardedAddressesWellFormed ==
  \A r \in Reqs :
    (req[r].router \in ExplorerRouters /\ Forwarded(r)) =>
      LET sent == upstream[r][1].params
      IN /\ ("address" \in DOMAIN sent /\ req[r].route # "POST /balances") =>
              IsHexString(sent.address, 40)
         /\ "contractaddress" \in DOMAIN sent =>
              IsHexString(sent.contractaddress, 40)
         /\ req[r].route = "POST /balances" =>
              \A i \in 1..Len(req[r].body.addresses.a) :
                IsHexString(req[r].body.addresses.a[i], 40)


\* request r is a handled POST /execute-contract whose call of
\* signAndExecuteContractTx has settled
ExecuteSettled(r) ==
  /\ req[r].router = "app"
  /\ req[r].route = "POST /execute-contract"
  /\ pc[r] = "done"
  /\ run[r].fn = "signAndExecuteContractTx"
  /\ run[r].outcome.kind \in {"return", "throw"}

\* the function returned a value that is not undefined, null, false, 0 or ''
ReturnedTruthy(r) ==
  /\ run[r].outcome.kind = "return"
  /\ run[r].outcome.value.t \notin {"undefined", "null"}
  /\ run[r].outcome.value # Bool(FALSE)
  /\ run[r].outcome.value # Num(<<"0">>)
  /\ run[r].outcome.value # Str(<<>>)

\* everything the claim says of POST /execute-contract but the error text
\* of a thrown error
ExecuteAnswers(r) ==
  /\ Len(responses[r]) = 1
  /\ responses[r][1].success = Bool(TRUE) <=> ReturnedTruthy(r)
  /\ ReturnedTruthy(r) =>
       /\ responses[r][1].status = 200
       /\ responses[r][1].data = run[r].outcome.value
       /\ responses[r][1].metadata.contractAddress = req[r].body.contractAddress
       /\ responses[r][1].metadata.functionName = req[r].body.functionName
       /\ responses[r][1].metadata.functionParams = req[r].body.functionParams
       /\ responses[r][1].metadata.value =
            IF req[r].body.value.t = "undefined" THEN Str(<<"0">>)
            ELSE req[r].body.value
  /\ (run[r].outcome.kind = "return" /\ ~ReturnedTruthy(r)) =>
       /\ responses[r][1].status = 500
       /\ responses[r][1].error = <<"Contract interaction failed">>
  /\ run[r].outcome.kind = "throw" => responses[r][1].status = 500

\* C20 (as stated): POST /execute-contract answers success true exactly
\* when signAndExecuteContractTx returned a truthy value, with metadata
\* echoing contractAddress, functionName, functionParams and value ('0'
\* when none was given); a falsy return is answered 500 'Contract
\* interaction failed' and a thrown error 500 with that error's message.
C20_AnswersWithThrownMessage ==
  \A r \in Reqs :
    ExecuteSettled(r) =>
      /\ ExecuteAnswers(r)
      /\ run[r].outcome.kind = "throw" =>
           responses[r][1].error = run[r].outcome.message

\* C20 (amended): as stated, except that a thrown error without a message
\* is answered 500 with the error 'Internal server error'.
C20_AnswersWithMessageOrFallback ==
  \A r \in Reqs :
    ExecuteSettled(r) =>
      /\ ExecuteAnswers(r)
      /\ run[r].outcome.kind = "throw" =>
           responses[r][1].error =
             IF run[r].outcome.message = <<>> THEN <<"Internal server error">>
             ELSE run[r].outcome.message

\* C20 witness: a call that threw an error without a message was answered
\* 500 with 'Internal server error'.
C20_Witness ==
  \E r \in Reqs :
    /\ ExecuteSettled(r)
    /\ run[r].outcome.kind = "throw"
    /\ run[r].outcome.message = <<>>
    /\ responses[r][1].status = 500
    /\ responses[r][1].error = <<"Internal server error">>


\* slot r holds a request of an HTTP client for /execute-contract,
\* /test-contract or an explorer route
HttpRequest(r) ==
  \/ req[r].router \in ExplorerRouters
  \/ req[r].router = "app" /\ req[r].route \in {"POST /execute-contract", "GET /test-contract"}

\* the handling of request r awaits an external call
InFlight(r) == HttpRequest(r) /\ pc[r] \notin {"idle", "done"}

\* the handling of request r is over and one response was sent
AnsweredOnce(r) == pc[r] = "done" /\ Len(responses[r]) = 1

\* C21: when every external call eventually returns or fails, every
\* request to /execute-contract, /test-contract or an explorer route is
\* eventually answered, and with exactly one response: nothing is sent
\* while a call is awaited, one response has been sent when the handling
\* is over, and never two.
C21_AnsweredExactlyOnce ==
  /\ [](\A r \in Reqs :
         /\ HttpRequest(r) => Len(responses[r]) <= 1
         /\ (HttpRequest(r) /\ pc[r] = "done") => Len(responses[r]) = 1
         /\ InFlight(r) => responses[r] = <<>>)
  /\ \A r \in Reqs : InFlight(r) ~> AnsweredOnce(r)

\* C21 witness: a request to /execute-contract whose orchestration failed
\* after the LitNodeClient was connected has got its one response.
C21_Witness ==
  \E r \in Reqs :
    /\ req[r].route = "POST /execute-contract"
    /\ run[r].outcome.kind = "throw"
    /\ CallCount(run[r].log, "litNodeClient.disconnect") = 1
    /\ AnsweredOnce(r)


\* the orchestration runs of r1 and r2 are both under way, for one PKP
Overlapping(r1, r2) ==
  /\ r1 # r2
  /\ run[r1].fn = "signAndExecuteContractTx" /\ run[r2].fn = "signAndExecuteContractTx"
  /\ pc[r1] \notin {"idle", "done"} /\ pc[r2] \notin {"idle", "done"}
  /\ run[r1].pkpInfo = run[r2].pkpInfo

\* the run of r has asked the wallet to send its funding transaction
SentFunding(r) == CallCount(run[r].log, "sendTransaction") = 1

\* the run of r has built its unsigned transaction
BuiltTransaction(r) == run[r].unsignedTransaction # NoTx

\* C22 (as stated): requests to /execute-contract or /test-contract whose
\* handling overlaps, for the same managed key, build unsigned transactions
\* with pairwise distinct nonces and send funding transactions with
\* pairwise distinct nonces.
C22_OverlappingNoncesDistinct ==
  \A r1, r2 \in Reqs :
    Overlapping(r1, r2) =>
      /\ (BuiltTransaction(r1) /\ BuiltTransaction(r2)) =>
           run[r1].unsignedTransaction.nonce # run[r2].unsignedTransaction.nonce
      /\ (SentFunding(r1) /\ SentFunding(r2)) =>
           run[r1].fundingTx.nonce # run[r2].fundingTx.nonce


\* the routes both explorer routers define
CommonRoutes == MantleRoutes \cap BaseSepoliaRoutes

\* the other explorer router
OtherRouter(router) == IF router = "mantle" THEN "baseSepolia" ELSE "mantle"

\* the parameters p without the API key
WithoutApiKey(p) == [k \in DOMAIN p \ {"apikey"} |-> p[k]]

\* what the other router's handler of the same route hands to makeRequest
\* for the request in slot r
TranslatedByOther(r) == RouteParams([req[r] EXCEPT !.router = OtherRouter(@)])

\* C23 (as stated): on every route both explorer routers define, the
\* parameters one router sent upstream for a request are, the API key
\* apart, the parameters the other router translates the same request to.
C23_RoutersTranslateAlike ==
  \A r \in Reqs :
    (/\ req[r].router \in ExplorerRouters
     /\ req[r].route \in CommonRoutes
     /\ Forwarded(r)) =>
      WithoutApiKey(upstream[r][1].params) = TranslatedByOther(r)

====
